---- MODULE Spec2Model ----
(***************************************************************************)
(* Peer lifecycle of the WireGuard gateway: the peer Store (internal/peers),*)
(* the create and delete handlers (internal/server), the garbage collector *)
(* (internal/gc) and the WireGuard device they configure (internal/wg).    *)
(*                                                                         *)
(* Every Store method runs under the Store's mutex, so each is one atomic  *)
(* step.  A handler or a GC pass is a sequence of such steps and of device *)
(* calls; steps of different threads interleave freely.  Further down the  *)
(* Store and the Renderer (internal/template) are taken statement by       *)
(* statement, with their mutexes and pointers, and GC.Run with its ticker  *)
(* and its context.                                                        *)
(***************************************************************************)
EXTENDS Integers, Sequences, FiniteSets, TLC

\* ---- bounds -------------------------------------------------------------
MaxPeers == 2      \* peers (uuids, key pairs) created in one behaviour
MaxTime == 3       \* the wall clock runs 1..MaxTime; 0 is the zero time.Time

Handlers == {"h1", "h2"}          \* concurrently served HTTP requests
MaxTTL == 1        \* the two TTL options range over 0..MaxTTL

TTLs == 0..MaxTTL

ZeroTime == 0                    \* time.Time{} (IsZero)
Nil == -1                        \* a nil *time.Time
Times == 1..MaxTime

ClientIPs == {"", "10.0.0.1", "2001:db8::1"}
Bodies == {"empty", "json", "malformed"}

\* ---- keys, addresses (wgtypes, net) ---------------------------------------
PublicKey(priv) == <<"pub", priv[2]>>

KeyString(k) == <<"b64", k[1], k[2]>>

EmptyString == <<"", "", 0>>

ParseKey(s) ==
    IF s[1] = "b64" THEN [err |-> FALSE, key |-> <<s[2], s[3]>>]
                    ELSE [err |-> TRUE, key |-> <<"", 0>>]

ParseIP(s) ==
    CASE s = "10.0.0.1" -> [kind |-> "v4", addr |-> s]
      [] s = "2001:db8::1" -> [kind |-> "v6", addr |-> s]
      [] OTHER -> [kind |-> "nil", addr |-> s]

IsNilIP(ip) == ip.kind = "nil"

\* A handler without the To4 check.
To4NeverNil(ip) == FALSE

To4IsNil(ip) == ip.kind # "v4"

\* A network that covers the caller's /24.
AllowedIPNetWide(ip) == [IP |-> ip.addr, Mask |-> 24]

AllowedIPNet(ip) == [IP |-> ip.addr, Mask |-> 32]

IPNetString(n) == <<n.IP, "/", n.Mask>>

\* A binding that accepts every body.
BindJSONNeverFails(body) == FALSE

BindJSONFails(body) == body = "malformed"

\* req.Note after ShouldBindJSON, lines 130-136: the note of a JSON body, and
\* the zero value where the body was empty (io.EOF, which is let through).
Note(body) == IF body = "json" THEN "a note" ELSE ""

\* ---- the authentication gates (requireBasicAuth, requireJWTAuth) ------------
\* Options.BasicAuthUsername, BasicAuthPassword and JWTSecret.
BasicAuthUsername == "admin"
BasicAuthPassword == "password"
JWTSecret == "secret"

\* An Authorization header: the scheme prefix and what follows it, either a
\* base64 text of user and password, a JWT with its algorithm and signing
\* key, or bytes that are neither.
NoHeader == [prefix |-> "", rest |-> <<"", "", "">>]
BasicHeader(user, pass) == [prefix |-> "Basic ", rest |-> <<"b64", user, pass>>]
BearerHeader(alg, key) == [prefix |-> "Bearer ", rest |-> <<"jwt", alg, key>>]

Headers ==
    {NoHeader,
     BasicHeader(BasicAuthUsername, BasicAuthPassword),
     BasicHeader(BasicAuthUsername, "guess"),
     [prefix |-> "Basic ", rest |-> <<"junk", "", "">>],
     BearerHeader("HS256", JWTSecret),
     BearerHeader("HS256", "forged"),
     BearerHeader("none", JWTSecret),
     [prefix |-> "Bearer ", rest |-> <<"b64", BasicAuthUsername, BasicAuthPassword>>],
     [prefix |-> "Basic ", rest |-> <<"jwt", "HS256", JWTSecret>>]}

\* A gate that lets every request through.
GateOpen(header) == TRUE

\* Lines 260-284: the prefix, the base64 decoding, the comparison with
\* username ":" password.
requireBasicAuth(header) ==
    /\ header.prefix = "Basic "
    /\ header.rest[1] = "b64"
    /\ <<header.rest[2], header.rest[3]>> = <<BasicAuthUsername, BasicAuthPassword>>

\* Lines 292-317: the prefix, then jwt.Parse with the HS256 check and the
\* secret as key.
requireJWTAuth(header) ==
    /\ header.prefix = "Bearer "
    /\ header.rest[1] = "jwt"
    /\ header.rest[2] = "HS256"
    /\ header.rest[3] = JWTSecret

\* ---- the Store (internal/peers) -------------------------------------------
StoreAdd(m, peer) ==
    [id \in DOMAIN m \cup {peer.ID} |-> IF id = peer.ID THEN peer ELSE m[id]]

StoreHas(m, id) == id \in DOMAIN m

\* A delete that hands out the record and leaves it in the map.
StoreDeleteKeeps(m, id) == m

\* A delete that empties the map.
StoreDeleteAll(m, id) == [i \in {} |-> m[i]]

StoreDelete(m, id) == [i \in DOMAIN m \ {id} |-> m[i]]

StoreList(m) == {m[i] : i \in DOMAIN m}

StoreUpdateHandshake(m, id, t) ==
    IF id \in DOMAIN m THEN [m EXCEPT ![id].LastHandshakeAt = t] ELSE m

\* ---- the garbage collector's decisions (internal/gc) ---------------------
HasHandshake(hs, p) ==
    p.PublicKey \in DOMAIN hs /\ hs[p.PublicKey] # ZeroTime

\* The age taken the wrong way round.
NeverConnectedExpiredSwapped(o, t, p) ==
    o.NeverConnectedTTL > 0 /\ p.CreatedAt - t > o.NeverConnectedTTL

NeverConnectedExpired(o, t, p) ==
    o.NeverConnectedTTL > 0 /\ t - p.CreatedAt > o.NeverConnectedTTL

\* The idle time taken the wrong way round.
StaleHandshakeExpiredSwapped(o, t, p) ==
    o.StaleHandshakeTTL > 0 /\ p.LastHandshakeAt - t > o.StaleHandshakeTTL

\* A stale rule that fires as soon as the idle time reaches the TTL.
StaleHandshakeExpiredAtTTL(o, t, p) ==
    o.StaleHandshakeTTL > 0 /\ t - p.LastHandshakeAt >= o.StaleHandshakeTTL

StaleHandshakeExpired(o, t, p) ==
    o.StaleHandshakeTTL > 0 /\ t - p.LastHandshakeAt > o.StaleHandshakeTTL

\* A loop body that judges every peer by its age alone.
ShouldRemoveByAge(o, t, p) == NeverConnectedExpired(o, t, p)

ShouldRemove(o, t, p) ==
    IF p.LastHandshakeAt = Nil THEN NeverConnectedExpired(o, t, p)
                               ELSE StaleHandshakeExpired(o, t, p)

\* ---- state ------------------------------------------------------------------
VARIABLES
    peers,        \* Store.peers: id -> Peer
    device,       \* public keys configured on the WireGuard device
    now,          \* the wall clock
    nextID,       \* uuids and keys generated so far, plus one
    opts,         \* UsePresharedKey, NeverConnectedTTL, StaleHandshakeTTL
    hpc,          \* handler -> position in its request
    req,          \* handler -> the request it serves and what it did so far
    gcpc,         \* position of the GC goroutine
    handshakes,   \* runOnce: the map Handshakes() returned
    hsErr,        \* runOnce: Handshakes() returned an error
    peersList,    \* runOnce: the snapshot Store.List() returned
    todo,         \* runOnce: ids of the snapshot not yet iterated
    gnow,         \* runOnce: now
    cur,          \* runOnce: the snapshot copy p under evaluation
    removed,      \* public key -> the RemovePeer calls made for it, by caller
    mem,          \* the heap: Peer structs, time.Time values, net.IP arrays
    storePeers,   \* Store.peers as the map it is: id -> address of a Peer
    mu,           \* Store.mu: the callers that hold it, exclusively or shared
    caller,       \* caller of the Store's methods -> its position and locals
    ctxDone,      \* Run: ctx.Done() is closed
    tickerC,      \* Run: the ticks buffered in ticker.C
    tpl,          \* Renderer.tpl: the parsed template
    tplFile,      \* the file at Renderer.tplPath
    tplHeap,      \* the heap of template.Template objects
    rmu,          \* Renderer.mu: the callers that hold it
    rcall         \* caller of the Renderer's methods -> its position and locals

vars == <<peers, device, now, nextID, opts, hpc, req, gcpc, handshakes, hsErr,
          peersList, todo, gnow, cur, removed, mem, storePeers, mu, caller,
          ctxDone, tickerC, tpl, tplFile, tplHeap, rmu, rcall>>

\* The variables of the memory-level model of package peers (below).
memVars == <<mem, storePeers, mu, caller>>

\* The variables of GC.Run's select loop.
runVars == <<ctxDone, tickerC>>

\* The variables of the Renderer (internal/template).
rendererVars == <<tpl, tplFile, tplHeap, rmu, rcall>>

storeVars == <<peers>>
gcVars == <<gcpc, handshakes, hsErr, peersList, todo, gnow, cur>>
handlerVars == <<hpc, req>>

NoPeer ==
    [ID |-> 0, PublicKey |-> EmptyString, PrivateKey |-> EmptyString,
     PresharedKey |-> EmptyString, ClientIPv4 |-> "", AllowedCIDR |-> <<"", "/", 0>>,
     CreatedAt |-> ZeroTime, LastHandshakeAt |-> Nil]

\* The arguments of an AddPeer call: the public key, the preshared key
\* pointer (NilKey for nil) and the allowed networks.
NilKey == <<"nil", 0>>

NoArgs == [PublicKey |-> NilKey, PresharedKey |-> NilKey, AllowedIPs |-> <<>>]

NoReq ==
    [op |-> "none", auth |-> NoHeader, ip |-> "", body |-> "empty", note |-> "",
     id |-> 0, peer |-> NoPeer, status |-> 0, calls |-> <<>>, args |-> NoArgs,
     muts |-> <<>>]

EmptyMap == [k \in {} |-> 0]

\* The goroutines that call the Store's methods in the memory-level model.
Callers == {"c1", "c2"}

\* A nil *Peer.
NilPeer == [NoPeer EXCEPT !.ClientIPv4 = Nil]

\* The result of a method: the error, the peer and the list it returns.
NoResult == [err |-> FALSE, peer |-> NilPeer, list |-> {}]
NotFound == [err |-> TRUE, peer |-> NilPeer, list |-> {}]

\* The same for the Store held by value.
NoValue == [err |-> FALSE, peer |-> NoPeer, list |-> {}]
ValueNotFound == [err |-> TRUE, peer |-> NoPeer, list |-> {}]

NoCall ==
    [pc |-> "idle", op |-> "none", id |-> 0, t |-> ZeroTime, peer |-> 0,
     seen |-> {}, out |-> {}, res |-> NoResult, exp |-> NoValue]

\* The goroutines that call the Renderer's methods.
RCallers == {"r1", "r2"}

\* The text of a template file: its version, and whether text/template
\* parses it and can execute it on the handler's data.
NoText == [ver |-> 0, kind |-> "none"]

\* What Render and Reload return: the error and the rendered string, the
\* text that was executed on the data.
NoRender == [err |-> FALSE, out |-> NoText]

NoRCall ==
    [pc |-> "idle", op |-> "none", content |-> NoText, tpl |-> 0,
     res |-> NoRender, status |-> 0]

\* NewRenderer, lines 20-26, has loaded the file (main exits otherwise): the
\* first version of the text, which parses.
FirstText == [ver |-> 1, kind |-> "ok"]

Init ==
    /\ peers = EmptyMap
    /\ device = {}
    /\ now = 1
    /\ nextID = 1
    /\ opts \in [UsePresharedKey : BOOLEAN, NeverConnectedTTL : TTLs,
                 StaleHandshakeTTL : TTLs]
    /\ hpc = [h \in Handlers |-> "idle"]
    /\ req = [h \in Handlers |-> NoReq]
    /\ gcpc = "idle"
    /\ handshakes = EmptyMap
    /\ hsErr = FALSE
    /\ peersList = {}
    /\ todo = {}
    /\ gnow = ZeroTime
    /\ cur = NoPeer
    /\ removed = EmptyMap
    /\ mem = [obj |-> <<>>, time |-> <<>>, ip |-> <<>>]
    /\ storePeers = EmptyMap
    /\ mu = [w |-> {}, r |-> {}]
    /\ caller = [c \in Callers |-> NoCall]
    /\ ctxDone = FALSE
    /\ tickerC = 0
    /\ tplFile = [readable |-> TRUE, text |-> FirstText]
    /\ tplHeap = <<[text |-> FirstText, parsed |-> TRUE]>>
    /\ tpl = 1
    /\ rmu = [w |-> {}, r |-> {}]
    /\ rcall = [c \in RCallers |-> NoRCall]

\* ---- the device (internal/wg) ----------------------------------------------
DeviceAddPeer(d, key, ok) == IF ok THEN d \cup {key} ELSE d

\* A removal that replaces the device's whole peer list.
DeviceRemovePeerReplaces(d, key, ok) == IF ok THEN {} ELSE d

DeviceRemovePeer(d, key, ok) == IF ok THEN d \ {key} ELSE d

\* The record a test double of the Manager keeps (gc_test.go, fakeManager):
\* every RemovePeer call made, here with the thread that made it.
RecordRemove(r, key, who) ==
    [k \in DOMAIN r \cup {key} |->
        IF k = key THEN (IF k \in DOMAIN r THEN Append(r[k], who) ELSE <<who>>)
                   ELSE r[k]]

Tick ==
    /\ now < MaxTime
    /\ now' = now + 1
    /\ UNCHANGED <<peers, device, nextID, opts, memVars, runVars, rendererVars, hpc, req, gcpc, handshakes, hsErr,
                   peersList, todo, gnow, cur, removed>>


\* ---- POST /peer (Server.handleCreatePeer) ----------------------------------
Respond(r, code) == [r EXCEPT !.status = code, !.peer = NoPeer]

\* A key generator that returns the same key every time.
GenerateKeyFixed(n) == <<"psk", 0>>

\* wgtypes.GenerateKey, line 150: the n-th key drawn is a fresh one.
GenerateKey(n) == <<"psk", n>>

\* Lines 148-159: preshared stays nil and presharedString empty unless the
\* option is set.
Preshared(usePSK, n) == IF usePSK THEN GenerateKey(n) ELSE NilKey

PresharedString(usePSK, n) ==
    IF usePSK THEN KeyString(GenerateKey(n)) ELSE EmptyString

NewKeys(r, n, usePSK) ==
    [r EXCEPT !.id = n,
              !.peer = [NoPeer EXCEPT
                  !.ID = n,
                  !.PrivateKey = KeyString(<<"priv", n>>),
                  !.PublicKey = KeyString(PublicKey(<<"priv", n>>)),
                  !.PresharedKey = PresharedString(usePSK, n),
                  !.ClientIPv4 = r.ip,
                  !.AllowedCIDR = IPNetString(AllowedIPNet(ParseIP(r.ip)))]]

\* A handler that does not look at AddPeer's error.
AfterAddPeerIgnoresError(ok) == "storeAdd"

\* Lines 167-171: a failed AddPeer ends the request, a successful one goes on
\* to the registration.
AfterAddPeer(ok) == IF ok THEN "storeAdd" ELSE "done"

\* Line 87 and lines 119-171: the JWT gate, then validation, uuid, key
\* generation, allowed network (all local to the request) and then
\* Manager.AddPeer, which may fail.
CreatePeer(h, auth, ip, body, genOK, ok) ==
    /\ hpc[h] \in {"idle", "done"}
    /\ LET clientIP == ParseIP(ip)
           ra == [NoReq EXCEPT !.op = "create", !.auth = auth]
           r == [ra EXCEPT !.ip = ip]
           rb == [r EXCEPT !.body = body, !.note = Note(body)]
           reject(q, code) == /\ hpc' = [hpc EXCEPT ![h] = "done"]
                              /\ req' = [req EXCEPT ![h] = Respond(q, code)]
                              /\ UNCHANGED <<nextID, device>>
       IN  IF ~requireJWTAuth(auth) THEN reject(ra, 401)
           ELSE IF IsNilIP(clientIP) THEN reject(r, 400)
           ELSE IF To4IsNil(clientIP) THEN reject(r, 403)
           ELSE IF BindJSONFails(body) THEN reject(rb, 400)
           ELSE IF ~genOK THEN reject(rb, 500)
           ELSE /\ nextID <= MaxPeers
                /\ nextID' = nextID + 1
                /\ LET q == NewKeys(rb, nextID, opts.UsePresharedKey)
                       key == ParseKey(q.peer.PublicKey).key
                       called == [q EXCEPT
                                     !.calls = Append(@, <<"AddPeer", key, ok>>),
                                     !.args = [PublicKey |-> key,
                                               PresharedKey |->
                                                   Preshared(opts.UsePresharedKey,
                                                             nextID),
                                               AllowedIPs |->
                                                   <<AllowedIPNet(clientIP)>>]]
                   IN  /\ device' = DeviceAddPeer(device, key, ok)
                       /\ IF AfterAddPeer(ok) = "storeAdd"
                          THEN /\ hpc' = [hpc EXCEPT ![h] = "storeAdd"]
                               /\ req' = [req EXCEPT ![h] = called]
                          ELSE /\ hpc' = [hpc EXCEPT ![h] = "done"]
                               /\ req' = [req EXCEPT ![h] = Respond(called, 500)]
    /\ UNCHANGED <<peers, now, opts, memVars, runVars, rendererVars, gcpc, handshakes, hsErr, peersList, todo,
                   gnow, cur, removed>>

\* Lines 173-209: time.Now, Store.Add, Renderer.Render, the response.
CreateStoreAdd(h, renderOK) ==
    /\ hpc[h] = "storeAdd"
    /\ LET r == req[h]
           peer == [r.peer EXCEPT !.CreatedAt = now]
           added == [r EXCEPT !.muts = Append(@, <<"Add", peer.ID>>)]
       IN  /\ peers' = StoreAdd(peers, peer)
           /\ hpc' = [hpc EXCEPT ![h] = "done"]
           /\ req' = [req EXCEPT
                  ![h] = Respond(added, IF renderOK THEN 201 ELSE 500)]
    /\ UNCHANGED <<device, now, nextID, opts, memVars, runVars, rendererVars, gcpc, handshakes, hsErr, peersList, todo,
                   gnow, cur, removed>>

\* ---- DELETE /peer/:id (Server.handleDeletePeer) ----------------------------
\* Line 88 and lines 212-221: the basic-auth gate, then Store.Delete claims
\* the record or reports ErrNotFound.
DeletePeer(h, auth, id) ==
    /\ hpc[h] \in {"idle", "done"}
    /\ LET ra == [NoReq EXCEPT !.op = "delete", !.auth = auth]
           r == [ra EXCEPT !.id = id]
       IN  IF ~requireBasicAuth(auth)
           THEN /\ peers' = peers
                /\ hpc' = [hpc EXCEPT ![h] = "done"]
                /\ req' = [req EXCEPT ![h] = Respond(ra, 401)]
           ELSE IF StoreHas(peers, id)
           THEN /\ peers' = StoreDelete(peers, id)
                /\ hpc' = [hpc EXCEPT ![h] = "removePeer"]
                /\ req' = [req EXCEPT ![h] =
                       [r EXCEPT !.peer = peers[id],
                                 !.muts = <<<<"Delete", id>>>>]]
           ELSE /\ peers' = peers
                /\ hpc' = [hpc EXCEPT ![h] = "done"]
                /\ req' = [req EXCEPT ![h] = Respond(r, 404)]
    /\ UNCHANGED <<device, now, nextID, opts, memVars, runVars, rendererVars, gcpc, handshakes, hsErr, peersList, todo,
                   gnow, cur, removed>>

\* A handler that answers 204 whatever RemovePeer returned.
DeleteStatusIgnoresError(ok) == 204

\* Lines 229-235: the status after Manager.RemovePeer.
DeleteStatus(ok) == IF ok THEN 204 ELSE 500

\* Lines 223-235: ParseKey, Manager.RemovePeer, the response.
DeleteRemovePeer(h, ok) ==
    /\ hpc[h] = "removePeer"
    /\ LET r == req[h]
           parsed == ParseKey(r.peer.PublicKey)
           called == [r EXCEPT !.calls = Append(@, <<"RemovePeer", parsed.key, ok>>)]
       IN  IF parsed.err
           THEN /\ req' = [req EXCEPT ![h] = Respond(r, 500)]
                /\ UNCHANGED <<device, removed>>
           ELSE /\ device' = DeviceRemovePeer(device, parsed.key, ok)
                /\ removed' = RecordRemove(removed, parsed.key, h)
                /\ req' = [req EXCEPT
                       ![h] = Respond(called, DeleteStatus(ok))]
    /\ hpc' = [hpc EXCEPT ![h] = "done"]
    /\ UNCHANGED <<peers, now, nextID, opts, memVars, runVars, rendererVars, gcpc, handshakes, hsErr, peersList, todo,
                   gnow, cur>>

\* ---- GET /healthz, POST /admin/reload-template ------------------------------
\* Line 86 and lines 115-117.
Healthz(h, auth) ==
    /\ hpc[h] \in {"idle", "done"}
    /\ LET ra == [NoReq EXCEPT !.op = "healthz", !.auth = auth]
       IN  req' = [req EXCEPT ![h] =
                      Respond(ra, IF requireBasicAuth(auth) THEN 200 ELSE 401)]
    /\ hpc' = [hpc EXCEPT ![h] = "done"]
    /\ UNCHANGED <<peers, device, now, nextID, opts, memVars, runVars, rendererVars, gcpc, handshakes, hsErr, peersList,
                   todo, gnow, cur, removed>>

\* Line 89 and lines 238-244: Renderer.Reload may fail; it touches neither
\* the Store nor the device.
ReloadTemplate(h, auth, ok) ==
    /\ hpc[h] \in {"idle", "done"}
    /\ LET ra == [NoReq EXCEPT !.op = "reload", !.auth = auth]
       IN  req' = [req EXCEPT ![h] =
                      Respond(ra, IF ~requireBasicAuth(auth) THEN 401
                                  ELSE IF ok THEN 204 ELSE 500)]
    /\ hpc' = [hpc EXCEPT ![h] = "done"]
    /\ UNCHANGED <<peers, device, now, nextID, opts, memVars, runVars, rendererVars, gcpc, handshakes, hsErr, peersList,
                   todo, gnow, cur, removed>>

\* ---- the garbage collector (GC.Run, GC.runOnce, GC.removePeer) -------------
\* Manager.Handshakes, internal/wg lines 81-93: one entry per peer of the
\* device.  What the device reports for a key is fixed by the call but is
\* arbitrary; the model settles it when runOnce first looks the key up, and
\* holds Unread for it until then.
Unread == -2

Readings == 0..MaxTime

Handshakes(d) == [s \in {KeyString(k) : k \in d} |-> Unread]

Lookup(hs, p, t) ==
    IF p.PublicKey \in DOMAIN hs THEN [hs EXCEPT ![p.PublicKey] = t] ELSE hs

\* A pass that returns when Handshakes fails.
AfterHandshakesAborts(ok) == IF ok THEN "list" ELSE "idle"

\* Lines 61-66: the error is logged and runOnce goes on to Store.List.
AfterHandshakes(ok) == "list"

\* Run, line 53, and runOnce, lines 60-64: Run receives a tick, the one
\* buffered in ticker.C or one the ticker sends while Run waits in the select,
\* and starts a pass, which first asks the device for the handshake times; on
\* error the map is empty.
GCHandshakes(ok) ==
    /\ gcpc = "idle"
    /\ handshakes' = IF ok THEN Handshakes(device) ELSE EmptyMap
    /\ hsErr' = ~ok
    /\ gcpc' = AfterHandshakes(ok)
    /\ tickerC' = IF tickerC > 0 THEN tickerC - 1 ELSE 0
    /\ UNCHANGED <<peers, device, now, nextID, opts, memVars, ctxDone, rendererVars,
                   hpc, req, peersList, todo, gnow, cur, removed>>

\* Lines 66-67: the snapshot and the pass's time.
GCList ==
    /\ gcpc = "list"
    /\ peersList' = StoreList(peers)
    /\ todo' = DOMAIN peers
    /\ gnow' = now
    /\ gcpc' = "loop"
    /\ UNCHANGED <<peers, device, now, nextID, opts, memVars, runVars, rendererVars, hpc, req, handshakes, hsErr, cur,
                   removed>>

SnapshotPeer(id) == CHOOSE p \in peersList : p.ID = id

\* A loop body that refreshes the Store and not its own copy.
RefreshedStoreOnly(m, hs, p) == p

\* p as the loop body holds it after lines 70-76: p.LastHandshakeAt follows
\* the device's reading only if UpdateHandshake found the peer.
Refreshed(m, hs, p) ==
    IF HasHandshake(hs, p) /\ StoreHas(m, p.ID)
    THEN [p EXCEPT !.LastHandshakeAt = hs[p.PublicKey]]
    ELSE p

\* A loop that comes back to the peers it has visited.
VisitedKeeps(rest, id) == rest

\* Line 69: the range loop moves on to the next element of the slice.
Visited(rest, id) == rest \ {id}

\* Lines 69-88: the next peer of the snapshot, in the map's arbitrary order,
\* its handshake refresh, and the TTL rules on the refreshed copy.
GCRefresh(id, t) ==
    /\ gcpc = "loop"
    /\ id \in todo
    /\ todo' = Visited(todo, id)
    /\ LET p == SnapshotPeer(id)
           hs == Lookup(handshakes, p, t)
           q == Refreshed(peers, hs, p)
       IN  /\ handshakes' = hs
           /\ peers' = IF HasHandshake(hs, p)
                       THEN StoreUpdateHandshake(peers, id, hs[p.PublicKey])
                       ELSE peers
           /\ IF ShouldRemove(opts, gnow, q)
              THEN cur' = q /\ gcpc' = "delete"
              ELSE cur' = NoPeer /\ gcpc' = "loop"
    /\ UNCHANGED <<device, now, nextID, opts, memVars, runVars, rendererVars, hpc, req, hsErr, peersList, gnow,
                   removed>>

\* removePeer, lines 92-99: Store.Delete claims the record; ErrNotFound ends
\* the eviction silently.
GCDelete ==
    /\ gcpc = "delete"
    /\ IF StoreHas(peers, cur.ID)
       THEN /\ peers' = StoreDelete(peers, cur.ID)
            /\ cur' = peers[cur.ID]
            /\ gcpc' = "removePeer"
       ELSE /\ peers' = peers
            /\ cur' = NoPeer
            /\ gcpc' = "loop"
    /\ UNCHANGED <<device, now, nextID, opts, memVars, runVars, rendererVars, hpc, req, handshakes, hsErr, peersList,
                   todo, gnow, removed>>

\* A pass that gives up at the first failed removal.
RestAfterRemoveAborts(failed, rest) == IF failed THEN {} ELSE rest

\* Lines 102-110 return from removePeer only, and runOnce goes on with the
\* peers it has not visited yet.
RestAfterRemove(failed, rest) == rest

\* removePeer, lines 101-113: ParseKey and Manager.RemovePeer; a failure is
\* logged and the pass goes on.
GCRemovePeer(ok) ==
    /\ gcpc = "removePeer"
    /\ LET parsed == ParseKey(cur.PublicKey)
       IN  IF parsed.err
           THEN UNCHANGED <<device, removed>>
           ELSE /\ device' = DeviceRemovePeer(device, parsed.key, ok)
                /\ removed' = RecordRemove(removed, parsed.key, "gc")
    /\ todo' = RestAfterRemove(ParseKey(cur.PublicKey).err \/ ~ok, todo)
    /\ cur' = NoPeer
    /\ gcpc' = "loop"
    /\ UNCHANGED <<peers, now, nextID, opts, memVars, runVars, rendererVars, hpc, req, handshakes, hsErr,
                   peersList, gnow>>

\* Line 89: the loop is over, runOnce returns to Run's select and its locals
\* are gone.
GCReturn ==
    /\ gcpc = "loop"
    /\ todo = {}
    /\ gcpc' = "idle"
    /\ handshakes' = EmptyMap
    /\ hsErr' = FALSE
    /\ peersList' = {}
    /\ gnow' = ZeroTime
    /\ UNCHANGED <<peers, device, now, nextID, opts, memVars, runVars, rendererVars, hpc, req, todo, cur,
                   removed>>

\* ---- GC.Run: the ticker and the context ----------------------------------------
\* time.NewTicker, line 46: ticker.C is a channel with a buffer of one.
TickerBuffer == 1

\* A ticker whose channel takes every tick.
RoomInChannelAlways(n) == TRUE

\* The ticker's send does not block: it succeeds while the buffer has room.
RoomInChannel(n) == n < TickerBuffer

\* The ticker sends a tick while Run is not receiving; it is buffered while
\* there is room in ticker.C and dropped otherwise.  ticker.Stop (line 47)
\* ends the ticks when Run returns.
TickerSend ==
    /\ gcpc # "returned"
    /\ RoomInChannel(tickerC)
    /\ tickerC' = tickerC + 1
    /\ UNCHANGED <<peers, device, now, nextID, opts, memVars, ctxDone, rendererVars,
                   hpc, req, gcVars, removed>>

\* The context given to Run is cancelled.
Cancel ==
    /\ ~ctxDone
    /\ ctxDone' = TRUE
    /\ UNCHANGED <<peers, device, now, nextID, opts, memVars, tickerC, rendererVars,
                   hpc, req, gcVars, removed>>

\* A loop that looks at the context inside a pass as well.
CanReturnAnywhere(pc, done) == done

\* Lines 50-52: the select is reached between two calls of runOnce, and its
\* first case is ready once the context is done.
CanReturn(pc, done) == pc = "idle" /\ done

\* Lines 51-52: the select takes the ctx.Done case and Run returns.
RunReturn ==
    /\ gcpc # "returned"
    /\ CanReturn(gcpc, ctxDone)
    /\ gcpc' = "returned"
    /\ UNCHANGED <<peers, device, now, nextID, opts, memVars, runVars, rendererVars,
                   hpc, req, handshakes, hsErr, peersList, todo, gnow, cur, removed>>

\* ---- package peers at the level of its memory --------------------------------
\* The steps above take a Store method as one atomic step on the records held
\* by value.  Here a method is the statements of its body under Store.mu, the
\* map holds pointers, and a LastHandshakeAt or a ClientIPv4 is the address of
\* a time.Time or of a byte array that several Peer values may share.  Callers
\* are goroutines that call the methods of the Store and of the Manager in any
\* order.  peers is the Store as the methods completed so far define it, each
\* applied in one piece when it returns.
MaxObjs == 2       \* Peer structs built for Store.Add in one behaviour
MaxCells == 2      \* time.Time values UpdateHandshake takes the address of

CallIDs == 1..MaxObjs
CallTimes == 1..MaxCells

\* What a pointer-holding Peer value shows to a reader: the address and the
\* time it points to, as the fields of the record.
View(h, p) ==
    [p EXCEPT !.ClientIPv4 = IF p.ClientIPv4 = Nil THEN "" ELSE h.ip[p.ClientIPv4],
              !.LastHandshakeAt = IF p.LastHandshakeAt = Nil THEN Nil
                                  ELSE h.time[p.LastHandshakeAt]]

\* The Store's map as a reader sees it.
ViewMap(h, m) == [id \in DOMAIN m |-> View(h, h.obj[m[id]])]

\* Lines 175-184: a new Peer for the id, with its own address array.
NewPeer(h, id) ==
    [NoPeer EXCEPT !.ID = id,
                   !.PublicKey = KeyString(PublicKey(<<"priv", id>>)),
                   !.PrivateKey = KeyString(<<"priv", id>>),
                   !.ClientIPv4 = Len(h.ip) + 1,
                   !.AllowedCIDR = IPNetString(AllowedIPNet(ParseIP("10.0.0.1"))),
                   !.CreatedAt = 1]

\* sync.RWMutex: Lock waits until nobody holds the mutex, RLock until no
\* writer does.
CanLock(m) == m.w = {} /\ m.r = {}
CanRLock(m) == m.w = {}

\* Methods that all take the read lock.
SharedByAll(op) == "RLock"

\* Lines 39, 46, 58, 71, 83: the lock each method takes.
LockOf(op) == IF op \in {"Get", "List"} THEN "RLock" ELSE "Lock"

CanAcquire(m, op) == IF LockOf(op) = "Lock" THEN CanLock(m) ELSE CanRLock(m)

Acquire(m, c, op) ==
    IF LockOf(op) = "Lock" THEN [m EXCEPT !.w = @ \cup {c}]
                           ELSE [m EXCEPT !.r = @ \cup {c}]

\* A method that returns with the mutex still held.
ReleaseForgotten(m, c) == m

\* Lines 40, 47, 59, 72, 84: the deferred Unlock or RUnlock of a returning
\* method.
Release(m, c) == [m EXCEPT !.w = @ \ {c}, !.r = @ \ {c}]

\* A caller enters a method: its lock is acquired and the body is next.
Enter(c, op, id, t, first) ==
    /\ caller[c].pc = "idle"
    /\ CanAcquire(mu, op)
    /\ mu' = Acquire(mu, c, op)
    /\ caller' = [caller EXCEPT ![c] =
                     [NoCall EXCEPT !.pc = first, !.op = op, !.id = id, !.t = t]]

\* A method returns: the deferred unlock runs and the caller has the result.
\* exp is what the same method returns on the Store held by value.
Return(c, res, exp) ==
    /\ mu' = Release(mu, c)
    /\ caller' = [caller EXCEPT ![c] =
                     [@ EXCEPT !.pc = "idle", !.res = res, !.exp = exp,
                               !.peer = 0, !.seen = {}, !.out = {}]]

lifecycleVars0 ==
    <<device, now, nextID, opts, hpc, req, gcpc, handshakes, hsErr, peersList,
      todo, gnow, cur, removed, runVars>>

lifecycleVars == <<lifecycleVars0, rendererVars>>

\* Store.Add, lines 38-42.  The caller has built the Peer under a new id
\* (server.go 138, 175-184) and passes the pointer.
CallAdd(c) ==
    /\ Len(mem.obj) < MaxObjs
    /\ LET a == Len(mem.obj) + 1
       IN  /\ mem' = [mem EXCEPT !.obj = Append(@, NewPeer(mem, a)),
                                 !.ip = Append(@, "10.0.0.1")]
           /\ caller[c].pc = "idle"
           /\ CanAcquire(mu, "Add")
           /\ mu' = Acquire(mu, c, "Add")
           /\ caller' = [caller EXCEPT ![c] =
                            [NoCall EXCEPT !.pc = "Add41", !.op = "Add",
                                           !.id = a, !.peer = a]]
    /\ UNCHANGED <<peers, storePeers, lifecycleVars>>

\* Line 41: the map entry is the caller's pointer.
Add41(c) ==
    /\ caller[c].pc = "Add41"
    /\ LET a == caller[c].peer
           id == mem.obj[a].ID
       IN  /\ storePeers' = [i \in DOMAIN storePeers \cup {id} |->
                                IF i = id THEN a ELSE storePeers[i]]
           /\ peers' = StoreAdd(peers, View(mem, mem.obj[a]))
           /\ Return(c, NoResult, NoValue)
    /\ UNCHANGED <<mem, lifecycleVars>>

\* Store.Get, lines 45-54.
CallGet(c, id) ==
    /\ Enter(c, "Get", id, ZeroTime, "Get48")
    /\ UNCHANGED <<peers, mem, storePeers, lifecycleVars>>

\* Lines 48-53: the lookup and cp := *peer, a copy of the fields.
Get48(c) ==
    /\ caller[c].pc = "Get48"
    /\ LET id == caller[c].id
           res == IF id \in DOMAIN storePeers
                  THEN [NoResult EXCEPT !.peer = mem.obj[storePeers[id]]]
                  ELSE NotFound
           exp == IF StoreHas(peers, id)
                  THEN [NoValue EXCEPT !.peer = peers[id]]
                  ELSE ValueNotFound
       IN  Return(c, res, exp)
    /\ UNCHANGED <<peers, mem, storePeers, lifecycleVars>>

\* Store.Delete, lines 57-67.
CallDelete(c, id) ==
    /\ Enter(c, "Delete", id, ZeroTime, "Delete60")
    /\ UNCHANGED <<peers, mem, storePeers, lifecycleVars>>

\* Lines 60-63: the lookup; ErrNotFound returns.
Delete60(c) ==
    /\ caller[c].pc = "Delete60"
    /\ LET id == caller[c].id
       IN  IF id \in DOMAIN storePeers
           THEN /\ caller' = [caller EXCEPT ![c].pc = "Delete64",
                                            ![c].peer = storePeers[id]]
                /\ UNCHANGED <<peers, mu>>
           ELSE /\ Return(c, NotFound,
                          IF StoreHas(peers, id)
                          THEN [NoValue EXCEPT !.peer = peers[id]]
                          ELSE ValueNotFound)
                /\ peers' = StoreDelete(peers, id)
    /\ UNCHANGED <<mem, storePeers, lifecycleVars>>

\* Lines 64-66: the entry is deleted and a copy of the fields returned.
Delete64(c) ==
    /\ caller[c].pc = "Delete64"
    /\ LET id == caller[c].id
       IN  /\ storePeers' = [i \in DOMAIN storePeers \ {id} |-> storePeers[i]]
           /\ peers' = StoreDelete(peers, id)
           /\ Return(c, [NoResult EXCEPT !.peer = mem.obj[caller[c].peer]],
                     IF StoreHas(peers, id)
                     THEN [NoValue EXCEPT !.peer = peers[id]]
                     ELSE ValueNotFound)
    /\ UNCHANGED <<mem, lifecycleVars>>

\* Store.List, lines 70-79.
CallList(c) ==
    /\ Enter(c, "List", 0, ZeroTime, "List74")
    /\ UNCHANGED <<peers, mem, storePeers, lifecycleVars>>

\* Lines 74-77: the range loop copies one more entry, in the map's order.
List74(c, id) ==
    /\ caller[c].pc = "List74"
    /\ id \in DOMAIN storePeers \ caller[c].seen
    /\ caller' = [caller EXCEPT
                     ![c].seen = @ \cup {id},
                     ![c].out = @ \cup {mem.obj[storePeers[id]]}]
    /\ UNCHANGED <<peers, mem, storePeers, mu, lifecycleVars>>

\* Line 78: the loop is over.
List78(c) ==
    /\ caller[c].pc = "List74"
    /\ DOMAIN storePeers \ caller[c].seen = {}
    /\ Return(c, [NoResult EXCEPT !.list = caller[c].out],
              [NoValue EXCEPT !.list = StoreList(peers)])
    /\ UNCHANGED <<peers, mem, storePeers, lifecycleVars>>

\* Store.UpdateHandshake, lines 82-91.
CallUpdateHandshake(c, id, t) ==
    /\ Len(mem.time) < MaxCells
    /\ Enter(c, "UpdateHandshake", id, t, "UpdateHandshake85")
    /\ UNCHANGED <<peers, mem, storePeers, lifecycleVars>>

\* Lines 85-88: the lookup; ErrNotFound returns.
UpdateHandshake85(c) ==
    /\ caller[c].pc = "UpdateHandshake85"
    /\ LET id == caller[c].id
       IN  IF id \in DOMAIN storePeers
           THEN /\ caller' = [caller EXCEPT ![c].pc = "UpdateHandshake89",
                                            ![c].peer = storePeers[id]]
                /\ UNCHANGED <<peers, mu>>
           ELSE /\ Return(c, NotFound,
                          IF StoreHas(peers, id) THEN NoValue ELSE ValueNotFound)
                /\ peers' = StoreUpdateHandshake(peers, id, caller[c].t)
    /\ UNCHANGED <<mem, storePeers, lifecycleVars>>

\* An assignment that clears CreatedAt as well.
AssignLastHandshakeAtResets(p, a) ==
    [p EXCEPT !.LastHandshakeAt = a, !.CreatedAt = ZeroTime]

\* peer.LastHandshakeAt = &t, line 89.
AssignLastHandshakeAt(p, a) == [p EXCEPT !.LastHandshakeAt = a]

\* Line 89: the stored Peer gets the address of the parameter t, a new
\* time.Time.
UpdateHandshake89(c) ==
    /\ caller[c].pc = "UpdateHandshake89"
    /\ Len(mem.time) < MaxCells
    /\ LET id == caller[c].id
           a == Len(mem.time) + 1
       IN  /\ mem' = [mem EXCEPT !.time = Append(@, caller[c].t),
                                 !.obj[caller[c].peer] =
                                     AssignLastHandshakeAt(@, a)]
           /\ peers' = StoreUpdateHandshake(peers, id, caller[c].t)
           /\ Return(c, NoResult,
                     IF StoreHas(peers, id) THEN NoValue ELSE ValueNotFound)
    /\ UNCHANGED <<storePeers, lifecycleVars>>

\* A Manager call begins, and may never return: AddPeer and Handshakes as
\* the first thing a request or a pass does (server.go 167, part_002 60),
\* RemovePeer with the record a Delete returned (server.go 229, part_002 107).
DeviceCall(c, name) ==
    /\ caller[c].pc = "idle"
    /\ IF name = "RemovePeer"
       THEN caller[c].op = "Delete" /\ ~caller[c].res.err
       ELSE caller[c].op = "none"
    /\ caller' = [caller EXCEPT ![c].pc = name]
    /\ UNCHANGED <<peers, mem, storePeers, mu, lifecycleVars>>

\* The call returns; after RemovePeer the request or the eviction is over.
DeviceReturn(c) ==
    /\ caller[c].pc \in {"AddPeer", "RemovePeer", "Handshakes"}
    /\ caller' = [caller EXCEPT ![c] =
                     IF @.pc = "RemovePeer" THEN NoCall
                                            ELSE [@ EXCEPT !.pc = "idle"]]
    /\ UNCHANGED <<peers, mem, storePeers, mu, lifecycleVars>>

\* What callers can do to a Peer that Get, Delete or List returned to them.
\* An assignment to a field changes the caller's own copy.
AssignField(c) ==
    /\ caller[c].pc = "idle"
    /\ caller[c].op \in {"Get", "Delete"}
    /\ ~caller[c].res.err
    /\ caller[c].res.peer.AllowedCIDR # <<"", "/", 0>>
    /\ caller' = [caller EXCEPT ![c].res.peer.AllowedCIDR = <<"", "/", 0>>,
                                ![c].res.peer.LastHandshakeAt = Nil]
    /\ UNCHANGED <<peers, mem, storePeers, mu, lifecycleVars>>

\* *p.LastHandshakeAt = t writes the time.Time the copy points to.
AssignThroughLastHandshakeAt(c, t) ==
    /\ caller[c].pc = "idle"
    /\ caller[c].op \in {"Get", "Delete"}
    /\ ~caller[c].res.err
    /\ caller[c].res.peer.LastHandshakeAt # Nil
    /\ mem' = [mem EXCEPT !.time[caller[c].res.peer.LastHandshakeAt] = t]
    /\ UNCHANGED <<peers, storePeers, mu, caller, lifecycleVars>>

\* p.ClientIPv4[i] = b writes the array the copy's slice points to.
AssignThroughClientIPv4(c) ==
    /\ caller[c].pc = "idle"
    /\ caller[c].op \in {"Get", "Delete"}
    /\ ~caller[c].res.err
    /\ mem' = [mem EXCEPT !.ip[caller[c].res.peer.ClientIPv4] = "10.0.0.9"]
    /\ UNCHANGED <<peers, storePeers, mu, caller, lifecycleVars>>

\* What the caller of Add can do with the pointer it passed (server.go 175-185:
\* peer stays in scope after Store.Add): an assignment to a field of *peer,
\* made without the Store's mutex.
AssignAfterAdd(c) ==
    /\ caller[c].pc = "idle"
    /\ caller[c].op = "Add"
    /\ mem.obj[caller[c].id].AllowedCIDR # <<"", "/", 0>>
    /\ mem' = [mem EXCEPT !.obj[caller[c].id].AllowedCIDR = <<"", "/", 0>>]
    /\ UNCHANGED <<peers, storePeers, mu, caller, lifecycleVars>>

\* ---- the Renderer (internal/template) ---------------------------------------
\* The handlers above take Render and Reload as calls that succeed or fail.
\* Here they are the statements of their bodies: the file at tplPath, which
\* an operator edits, the template objects text/template builds from it, the
\* pointer Renderer.tpl and the mutex that guards it.
MaxTexts == 2      \* versions of the template text written to the file
MaxTpls == 2       \* template.Template objects built in one behaviour

Texts ==
    {[ver |-> v, kind |-> k] :
        v \in 1..MaxTexts, k \in {"ok", "unparsable", "unexecutable"}}

Files ==
    {[readable |-> TRUE, text |-> x] : x \in Texts}
        \cup {[readable |-> FALSE, text |-> NoText]}

\* A nil *template.Template.
NilTpl == 0

\* The file at tplPath is replaced, made unreadable or removed.
WriteFile(f) ==
    /\ f # tplFile
    /\ tplFile' = f
    /\ UNCHANGED <<tpl, tplHeap, rmu, rcall, peers, memVars, lifecycleVars0>>

\* A caller enters Render, line 30: RLock.
Render30(c) ==
    /\ rcall[c].pc = "idle"
    /\ CanRLock(rmu)
    /\ rmu' = [rmu EXCEPT !.r = @ \cup {c}]
    /\ rcall' = [rcall EXCEPT ![c] = [NoRCall EXCEPT !.pc = "Render31",
                                                     !.op = "Render"]]
    /\ UNCHANGED <<tpl, tplFile, tplHeap, peers, memVars, lifecycleVars0>>

\* Lines 31-32: tpl := r.tpl, RUnlock.
Render31(c) ==
    /\ rcall[c].pc = "Render31"
    /\ rmu' = Release(rmu, c)
    /\ rcall' = [rcall EXCEPT ![c].pc = "Render34", ![c].tpl = tpl]
    /\ UNCHANGED <<tpl, tplFile, tplHeap, peers, memVars, lifecycleVars0>>

\* tpl.Execute, line 39: a template executes as the text it was parsed from,
\* and fails where the text cannot be executed on the data or the template
\* has no parsed text.
Execute(t) ==
    IF t.parsed /\ t.text.kind = "ok" THEN [err |-> FALSE, out |-> t.text]
                                        ELSE [err |-> TRUE, out |-> NoText]

\* server.go lines 201-208: the status of the create request.
RenderStatus(err) == IF err THEN 500 ELSE 201

\* Lines 34-42: the nil check and Execute on the template that was read.
Render34(c) ==
    /\ rcall[c].pc = "Render34"
    /\ LET res == IF rcall[c].tpl = NilTpl
                  THEN [err |-> TRUE, out |-> NoText]
                  ELSE Execute(tplHeap[rcall[c].tpl])
       IN  rcall' = [rcall EXCEPT ![c].pc = "idle", ![c].res = res,
                                  ![c].status = RenderStatus(res.err)]
    /\ UNCHANGED <<tpl, tplFile, tplHeap, rmu, peers, memVars, lifecycleVars0>>

\* A handler that answers 204 whatever Reload returned.
ReloadStatusIgnoresError(err) == 204

\* server.go lines 239-243: the status of the reload request.
ReloadStatus(err) == IF err THEN 500 ELSE 204

\* reload returns an error: the caller has it and the status.
ReloadFails(c) ==
    rcall' = [rcall EXCEPT ![c].pc = "idle",
                           ![c].res = [err |-> TRUE, out |-> NoText],
                           ![c].status = ReloadStatus(TRUE)]

\* A caller enters Reload; lines 51-54: os.ReadFile.
Reload51(c) ==
    /\ rcall[c].pc = "idle"
    /\ LET r == [NoRCall EXCEPT !.op = "Reload"]
       IN  IF tplFile.readable
           THEN rcall' = [rcall EXCEPT ![c] = [r EXCEPT !.pc = "Reload55",
                                                        !.content = tplFile.text]]
           ELSE rcall' = [rcall EXCEPT ![c] =
                             [r EXCEPT !.res = [err |-> TRUE, out |-> NoText],
                                       !.status = ReloadStatus(TRUE)]]
    /\ UNCHANGED <<tpl, tplFile, tplHeap, rmu, peers, memVars, lifecycleVars0>>

\* A reload that goes on with what Parse returned beside its error.
AfterParseIgnoresError(kind) == "Reload59"

\* Lines 56-58: a parse error returns.
AfterParse(kind) == IF kind = "unparsable" THEN "return" ELSE "Reload59"

\* Lines 55-58: template.New(...).Parse(content) builds a new template; on
\* error it returns nil and the error.
Reload55(c) ==
    /\ rcall[c].pc = "Reload55"
    /\ rcall[c].content.kind = "unparsable" \/ Len(tplHeap) < MaxTpls
    /\ LET content == rcall[c].content
           a == Len(tplHeap) + 1
       IN  IF content.kind = "unparsable"
           THEN /\ tplHeap' = tplHeap
                /\ IF AfterParse(content.kind) = "return"
                   THEN ReloadFails(c)
                   ELSE rcall' = [rcall EXCEPT ![c].pc = "Reload59",
                                               ![c].tpl = NilTpl]
           ELSE /\ tplHeap' = Append(tplHeap, [text |-> content, parsed |-> TRUE])
                /\ rcall' = [rcall EXCEPT ![c].pc = "Reload59", ![c].tpl = a]
    /\ UNCHANGED <<tpl, tplFile, rmu, peers, memVars, lifecycleVars0>>

\* Line 59: Lock.
Reload59(c) ==
    /\ rcall[c].pc = "Reload59"
    /\ CanLock(rmu)
    /\ rmu' = [rmu EXCEPT !.w = @ \cup {c}]
    /\ rcall' = [rcall EXCEPT ![c].pc = "Reload61"]
    /\ UNCHANGED <<tpl, tplFile, tplHeap, peers, memVars, lifecycleVars0>>

\* Lines 60-62: r.tpl = tpl, the deferred Unlock, return nil.
Reload61(c) ==
    /\ rcall[c].pc = "Reload61"
    /\ tpl' = rcall[c].tpl
    /\ rmu' = Release(rmu, c)
    /\ rcall' = [rcall EXCEPT ![c].pc = "idle",
                              ![c].status = ReloadStatus(FALSE)]
    /\ UNCHANGED <<tplFile, tplHeap, peers, memVars, lifecycleVars0>>

Next ==
    \/ Tick
    \/ \E h \in Handlers, auth \in Headers, ip \in ClientIPs, body \in Bodies,
          genOK, ok \in BOOLEAN :
           CreatePeer(h, auth, ip, body, genOK, ok)
    \/ \E h \in Handlers, renderOK \in BOOLEAN : CreateStoreAdd(h, renderOK)
    \/ \E h \in Handlers, auth \in Headers, id \in 1..MaxPeers :
           DeletePeer(h, auth, id)
    \/ \E h \in Handlers, ok \in BOOLEAN : DeleteRemovePeer(h, ok)
    \/ \E h \in Handlers, auth \in Headers : Healthz(h, auth)
    \/ \E h \in Handlers, auth \in Headers, ok \in BOOLEAN :
           ReloadTemplate(h, auth, ok)
    \/ \E ok \in BOOLEAN : GCHandshakes(ok)
    \/ GCList
    \/ \E id \in todo, t \in Readings : GCRefresh(id, t)
    \/ GCDelete
    \/ \E ok \in BOOLEAN : GCRemovePeer(ok)
    \/ GCReturn
    \/ TickerSend
    \/ Cancel
    \/ RunReturn

\* The whole gateway: every request on every handler, the GC and the clock.
Spec == Init /\ [][Next]_vars

\* ---- the specifications the properties are checked under -------------------
\* The credentials that pass the two gates.
JWTCredential == BearerHeader("HS256", JWTSecret)
BasicCredential == BasicHeader(BasicAuthUsername, BasicAuthPassword)

\* The HTTP surface alone: both handlers serve every create and delete request
\* with every outcome of key generation, the device calls and the renderer.
\* No GC pass runs and the clock stands still, so the TTLs play no part and
\* are the largest ones.  Every request carries the credential of its route.
InitHTTP ==
    /\ Init
    /\ opts.NeverConnectedTTL = MaxTTL
    /\ opts.StaleHandshakeTTL = MaxTTL

NextHTTP ==
    \/ \E h \in Handlers, ip \in ClientIPs, body \in Bodies, genOK, ok \in BOOLEAN :
           CreatePeer(h, JWTCredential, ip, body, genOK, ok)
    \/ \E h \in Handlers, renderOK \in BOOLEAN : CreateStoreAdd(h, renderOK)
    \/ \E h \in Handlers, id \in 1..MaxPeers : DeletePeer(h, BasicCredential, id)
    \/ \E h \in Handlers, ok \in BOOLEAN : DeleteRemovePeer(h, ok)

SpecHTTP == InitHTTP /\ [][NextHTTP]_vars

\* The GC against one handler: well-formed create requests whose AddPeer may
\* fail, delete requests, the clock, and GC passes with every device outcome.
InitGC == Init /\ ~opts.UsePresharedKey

NextGC ==
    \/ Tick
    \/ \E ok \in BOOLEAN :
           CreatePeer("h1", JWTCredential, "10.0.0.1", "empty", TRUE, ok)
    \/ CreateStoreAdd("h1", TRUE)
    \/ \E id \in 1..MaxPeers : DeletePeer("h1", BasicCredential, id)
    \/ \E ok \in BOOLEAN : DeleteRemovePeer("h1", ok)
    \/ \E ok \in BOOLEAN : GCHandshakes(ok)
    \/ GCList
    \/ \E id \in todo, t \in Readings : GCRefresh(id, t)
    \/ GCDelete
    \/ \E ok \in BOOLEAN : GCRemovePeer(ok)
    \/ GCReturn

SpecGC == InitGC /\ [][NextGC]_vars

\* Removal races: two delete handlers and the GC compete for the peers that
\* one of the handlers created.  The device reports no handshake, so the GC
\* evicts by the never-connected rule.
MaxRacePeers == 1

InitRace ==
    /\ Init
    /\ ~opts.UsePresharedKey
    /\ opts.NeverConnectedTTL = MaxTTL
    /\ opts.StaleHandshakeTTL = MaxTTL

NextRace ==
    \/ Tick
    \/ /\ nextID <= MaxRacePeers
       /\ CreatePeer("h1", JWTCredential, "10.0.0.1", "empty", TRUE, TRUE)
    \/ CreateStoreAdd("h1", TRUE)
    \/ \E h \in Handlers, id \in 1..MaxRacePeers :
           DeletePeer(h, BasicCredential, id)
    \/ \E h \in Handlers, ok \in BOOLEAN : DeleteRemovePeer(h, ok)
    \/ GCHandshakes(TRUE)
    \/ GCList
    \/ \E id \in todo : GCRefresh(id, ZeroTime)
    \/ GCDelete
    \/ \E ok \in BOOLEAN : GCRemovePeer(ok)
    \/ GCReturn

SpecRace == InitRace /\ [][NextRace]_vars

\* GC.Run from its start to its return: the ticker, the cancellation of the
\* context and the passes, over peers that one handler creates and that get
\* no handshake.  A pass that has begun goes on (its device calls return),
\* and the select, which picks among its ready cases at random, does not
\* pass over the ready ctx.Done case for ever.
PassStep ==
    \/ GCList
    \/ \E id \in todo : GCRefresh(id, ZeroTime)
    \/ GCDelete
    \/ \E ok \in BOOLEAN : GCRemovePeer(ok)
    \/ GCReturn

NextRun ==
    \/ Tick
    \/ CreatePeer("h1", JWTCredential, "10.0.0.1", "empty", TRUE, TRUE)
    \/ CreateStoreAdd("h1", TRUE)
    \/ \E ok \in BOOLEAN : GCHandshakes(ok)
    \/ PassStep
    \/ TickerSend
    \/ Cancel
    \/ RunReturn

SpecRun ==
    InitRace /\ [][NextRun]_vars /\ WF_vars(PassStep) /\ SF_vars(RunReturn)

\* The Store under a caller that adds peers and then assigns to the Peer it
\* passed to Add, and a caller that reads and deletes.
NextOwn ==
    \/ CallAdd("c2")
    \/ Add41("c2")
    \/ AssignAfterAdd("c2")
    \/ \E id \in CallIDs : CallGet("c1", id)
    \/ Get48("c1")
    \/ CallList("c1")
    \/ \E id \in CallIDs : List74("c1", id)
    \/ List78("c1")
    \/ \E id \in CallIDs : CallDelete("c1", id)
    \/ Delete60("c1")
    \/ Delete64("c1")

SpecOwn == InitRace /\ [][NextOwn]_vars

\* The Renderer under two callers of Render and Reload and an operator who
\* edits the template file.
NextRenderer ==
    \/ \E f \in Files : WriteFile(f)
    \/ \E c \in RCallers : Render30(c)
    \/ \E c \in RCallers : Render31(c)
    \/ \E c \in RCallers : Render34(c)
    \/ \E c \in RCallers : Reload51(c)
    \/ \E c \in RCallers : Reload55(c)
    \/ \E c \in RCallers : Reload59(c)
    \/ \E c \in RCallers : Reload61(c)

SpecRenderer == InitRace /\ [][NextRenderer]_vars

\* The four routes under every Authorization header: one handler serves
\* requests with any header, the other one well-formed create and delete
\* requests that carry their route's credential.
InitAuth == InitHTTP /\ ~opts.UsePresharedKey

NextAuth ==
    \/ \E auth \in Headers, ok \in BOOLEAN :
           CreatePeer("h1", auth, "10.0.0.1", "empty", TRUE, ok)
    \/ CreatePeer("h2", JWTCredential, "10.0.0.1", "empty", TRUE, TRUE)
    \/ \E h \in Handlers : CreateStoreAdd(h, TRUE)
    \/ \E auth \in Headers, id \in 1..MaxPeers : DeletePeer("h1", auth, id)
    \/ \E id \in 1..MaxPeers : DeletePeer("h2", BasicCredential, id)
    \/ \E h \in Handlers, ok \in BOOLEAN : DeleteRemovePeer(h, ok)
    \/ \E auth \in Headers : Healthz("h1", auth)
    \/ \E auth \in Headers, ok \in BOOLEAN : ReloadTemplate("h1", auth, ok)

SpecAuth == InitAuth /\ [][NextAuth]_vars

\* The Store under two callers of its five methods and of the Manager.
NextStore ==
    \/ \E c \in Callers : CallAdd(c)
    \/ \E c \in Callers : Add41(c)
    \/ \E c \in Callers, id \in CallIDs : CallGet(c, id)
    \/ \E c \in Callers : Get48(c)
    \/ \E c \in Callers, id \in CallIDs : CallDelete(c, id)
    \/ \E c \in Callers : Delete60(c)
    \/ \E c \in Callers : Delete64(c)
    \/ \E c \in Callers : CallList(c)
    \/ \E c \in Callers, id \in CallIDs : List74(c, id)
    \/ \E c \in Callers : List78(c)
    \/ \E c \in Callers, id \in CallIDs, t \in CallTimes :
           CallUpdateHandshake(c, id, t)
    \/ \E c \in Callers : UpdateHandshake85(c)
    \/ \E c \in Callers : UpdateHandshake89(c)
    \/ \E c \in Callers, name \in {"AddPeer", "RemovePeer", "Handshakes"} :
           DeviceCall(c, name)
    \/ \E c \in Callers : DeviceReturn(c)

SpecStore == InitRace /\ [][NextStore]_vars

\* The Store under a caller that adds peers and updates handshakes and a
\* caller that reads and deletes and then assigns to the Peer values it got.
NextCopy ==
    \/ CallAdd("c2")
    \/ Add41("c2")
    \/ \E id \in CallIDs : CallGet("c1", id)
    \/ Get48("c1")
    \/ \E id \in CallIDs : CallDelete("c1", id)
    \/ Delete60("c1")
    \/ Delete64("c1")
    \/ CallList("c1")
    \/ \E id \in CallIDs : List74("c1", id)
    \/ List78("c1")
    \/ \E id \in CallIDs, t \in CallTimes : CallUpdateHandshake("c2", id, t)
    \/ UpdateHandshake85("c2")
    \/ UpdateHandshake89("c2")
    \/ AssignField("c1")
    \/ \E t \in CallTimes : AssignThroughLastHandshakeAt("c1", t)
    \/ AssignThroughClientIPv4("c1")

SpecCopy == InitRace /\ [][NextCopy]_vars

\* ---- vocabulary of the properties ------------------------------------------
\* The public key generated for the peer with this id.
KeyOf(id) == <<"pub", id>>

\* The RemovePeer calls made so far for a key.
RemoveCalls(k) == IF k \in DOMAIN removed THEN removed[k] ELSE <<>>

\* Handlers that have claimed the record of id from the Store and have not
\* yet called RemovePeer.
HandlerHolders(id) ==
    {h \in Handlers : hpc[h] = "removePeer" /\ req[h].peer.ID = id}

GCHolds(id) == gcpc = "removePeer" /\ cur.ID = id

\* Removal attempts that won the Store's delete of id: each winner holds the
\* record until it calls RemovePeer once.
Winners(id) ==
    Cardinality(HandlerHolders(id)) + (IF GCHolds(id) THEN 1 ELSE 0)
        + Len(RemoveCalls(KeyOf(id)))

FinishedDelete(h) == hpc[h] = "done" /\ req[h].op = "delete"

FinishedCreate(h) == hpc[h] = "done" /\ req[h].op = "create"

\* No handler and no GC pass is between its Store call and its device call.
Quiescent ==
    /\ \A h \in Handlers : hpc[h] \notin {"storeAdd", "removePeer"}
    /\ gcpc # "removePeer"

\* The loop of a pass has handled every peer of its snapshot.
PassDone == gcpc = "loop" /\ todo = {}

\* What the device reported in this pass for a peer of the snapshot.
Reading(p) ==
    IF p.PublicKey \in DOMAIN handshakes THEN handshakes[p.PublicKey]
                                          ELSE ZeroTime

\* A delete handler, not the GC, took the peer out of the Store.
DeletedByHandler(id) ==
    \/ HandlerHolders(id) # {}
    \/ \E i \in DOMAIN RemoveCalls(KeyOf(id)) :
           RemoveCalls(KeyOf(id))[i] \in Handlers

\* ---- C1 ------------------------------------------------------------------------
\* C1: of the removal attempts on one peer id (delete handlers and GC
\* evictions, in any interleaving) at most one wins the Store's delete, and
\* while the peer is registered none has; RemovePeer is called for its key by
\* the winner only, once; an attempt that lost answers 404 and has made no
\* device call and no change to the Store.
C1_OneWinner ==
    /\ \A id \in 1..MaxPeers :
          /\ Winners(id) <= 1
          /\ StoreHas(peers, id) => Winners(id) = 0
          /\ Len(RemoveCalls(KeyOf(id))) <= 1
    /\ \A h \in Handlers :
          FinishedDelete(h) =>
              IF req[h].status = 404
              THEN req[h].calls = <<>> /\ req[h].muts = <<>>
              ELSE /\ Len(req[h].calls) = 1
                   /\ req[h].calls[1][1] = "RemovePeer"
                   /\ req[h].calls[1][2] = KeyOf(req[h].id)
                   /\ RemoveCalls(KeyOf(req[h].id)) = <<h>>

\* Two delete handlers raced for the same peer: one removed it, the other saw
\* NotFound.
C1_Witness ==
    \E h, g \in Handlers :
        /\ FinishedDelete(h) /\ req[h].status = 204
        /\ FinishedDelete(g) /\ req[g].status = 404
        /\ req[h].id = req[g].id
        /\ RemoveCalls(KeyOf(req[h].id)) = <<h>>

\* ---- C2 ------------------------------------------------------------------------
\* C2, as stated: in every quiescent state a peer is in the Store if and only
\* if its public key is configured on the device.
C2_Original ==
    Quiescent =>
        \A id \in 1..MaxPeers : StoreHas(peers, id) <=> KeyOf(id) \in device

\* C2, amended: in every quiescent state every peer of the Store has its key
\* configured on the device, and a key is configured without a Store entry
\* only where a delete or an eviction took the entry and its RemovePeer call,
\* the single one made for that key, failed.
C2_Amended ==
    Quiescent =>
        \A id \in 1..MaxPeers :
            /\ StoreHas(peers, id) => KeyOf(id) \in device
            /\ (KeyOf(id) \in device /\ ~StoreHas(peers, id)) =>
                   Len(RemoveCalls(KeyOf(id))) = 1

\* A create, a failed delete and a pass have all run and the system is at
\* rest, with one peer registered and configured and another configured only.
C2_Witness ==
    /\ Quiescent
    /\ \E id, jd \in 1..MaxPeers :
          /\ StoreHas(peers, id) /\ KeyOf(id) \in device
          /\ ~StoreHas(peers, jd) /\ KeyOf(jd) \in device
          /\ Len(RemoveCalls(KeyOf(jd))) = 1

\* ---- C3 ------------------------------------------------------------------------
\* C3: once a peer's stored LastHandshakeAt is set, no step clears it and no
\* step lowers it, whatever the device reports.
C3_Monotonic ==
    [][\A id \in DOMAIN peers :
           (peers[id].LastHandshakeAt # Nil /\ id \in DOMAIN peers') =>
               /\ peers'[id].LastHandshakeAt # Nil
               /\ peers'[id].LastHandshakeAt >= peers[id].LastHandshakeAt]_vars

\* ---- C4 ------------------------------------------------------------------------
\* C4: a create request whose caller address is IPv6 is answered 403,
\* whatever its body, and has called no device operation and changed nothing
\* in the Store.
C4_IPv6Forbidden ==
    \A h \in Handlers :
        (req[h].op = "create" /\ req[h].ip = "2001:db8::1") =>
            /\ hpc[h] = "done"
            /\ req[h].status = 403
            /\ req[h].calls = <<>>
            /\ req[h].muts = <<>>

\* An IPv6 caller was turned away while a peer was registered.
C4_Witness ==
    \E h \in Handlers :
        /\ FinishedCreate(h) /\ req[h].ip = "2001:db8::1" /\ req[h].status = 403
        /\ DOMAIN peers # {}

\* ---- C5 ------------------------------------------------------------------------
\* C5: when a pass is over, every peer of its snapshot that had no stored
\* handshake, for which the device reported none, and that was older than a
\* non-zero NeverConnectedTTL is out of the Store, and one RemovePeer call for
\* its key has been made or is about to be made by whoever took it out.
C5_NeverConnectedEvicted ==
    PassDone =>
        \A p \in peersList :
            (/\ p.LastHandshakeAt = Nil
             /\ Reading(p) = ZeroTime
             /\ opts.NeverConnectedTTL > 0
             /\ gnow - p.CreatedAt > opts.NeverConnectedTTL) =>
                /\ ~StoreHas(peers, p.ID)
                /\ Winners(p.ID) = 1

\* A pass evicted a never-connected peer by itself.
C5_Witness ==
    /\ PassDone
    /\ \E p \in peersList :
          /\ p.LastHandshakeAt = Nil /\ Reading(p) = ZeroTime
          /\ opts.NeverConnectedTTL > 0
          /\ gnow - p.CreatedAt > opts.NeverConnectedTTL
          /\ RemoveCalls(KeyOf(p.ID)) = <<"gc">>

\* ---- C6 ------------------------------------------------------------------------
\* The last handshake the pass knows of: the device's non-zero reading, or
\* else the stored one.
LastKnown(p) == IF Reading(p) # ZeroTime THEN Reading(p) ELSE p.LastHandshakeAt

\* C6: when a pass is over, every peer of its snapshot whose last known
\* handshake is older than a non-zero StaleHandshakeTTL is out of the Store,
\* with one RemovePeer call for its key made or about to be made.
C6_StaleEvicted ==
    PassDone =>
        \A p \in peersList :
            (/\ LastKnown(p) # Nil
             /\ opts.StaleHandshakeTTL > 0
             /\ gnow - LastKnown(p) > opts.StaleHandshakeTTL) =>
                /\ ~StoreHas(peers, p.ID)
                /\ Winners(p.ID) = 1

\* A pass evicted by itself a peer that had connected: its handshake was
\* stored by an earlier pass and the device reported nothing newer.
C6_Witness ==
    /\ PassDone
    /\ \E p \in peersList :
          /\ p.LastHandshakeAt # Nil
          /\ LastKnown(p) = p.LastHandshakeAt
          /\ opts.StaleHandshakeTTL > 0
          /\ gnow - LastKnown(p) > opts.StaleHandshakeTTL
          /\ RemoveCalls(KeyOf(p.ID)) = <<"gc">>

\* ---- C7 ------------------------------------------------------------------------
\* C7: when a pass is over, every peer of its snapshot for which the device
\* reported a handshake newer than the stored one and within
\* StaleHandshakeTTL, and which no delete handler took out, is still in the
\* Store with that handshake stored.
C7_RefreshKeeps ==
    PassDone =>
        \A p \in peersList :
            (/\ Reading(p) # ZeroTime
             /\ Reading(p) > p.LastHandshakeAt
             /\ gnow - Reading(p) <= opts.StaleHandshakeTTL
             /\ ~DeletedByHandler(p.ID)) =>
                /\ StoreHas(peers, p.ID)
                /\ peers[p.ID].LastHandshakeAt = Reading(p)

\* A fresh reading saved a peer that both its stored handshake and its age
\* would have had evicted.
C7_Witness ==
    /\ PassDone
    /\ \E p \in peersList :
          /\ p.LastHandshakeAt # Nil
          /\ Reading(p) > p.LastHandshakeAt
          /\ opts.StaleHandshakeTTL > 0
          /\ gnow - Reading(p) <= opts.StaleHandshakeTTL
          /\ gnow - p.LastHandshakeAt > opts.StaleHandshakeTTL
          /\ opts.NeverConnectedTTL > 0
          /\ gnow - p.CreatedAt > opts.NeverConnectedTTL
          /\ StoreHas(peers, p.ID)
          /\ peers[p.ID].LastHandshakeAt = Reading(p)

\* ---- C8 ------------------------------------------------------------------------
\* C8: a create request changes the Store only after its AddPeer call has
\* succeeded, so every registered peer's key is on the device; a request whose
\* AddPeer failed is answered 500, has not touched the Store, and its id is
\* not registered.
C8_AddAfterDevice ==
    /\ \A id \in DOMAIN peers : KeyOf(id) \in device
    /\ \A h \in Handlers :
          req[h].op = "create" =>
              /\ req[h].muts # <<>> =>
                     req[h].calls = << <<"AddPeer", KeyOf(req[h].id), TRUE>> >>
              /\ req[h].calls = << <<"AddPeer", KeyOf(req[h].id), FALSE>> >> =>
                     /\ hpc[h] = "done"
                     /\ req[h].status = 500
                     /\ req[h].muts = <<>>
                     /\ ~StoreHas(peers, req[h].id)

\* One create failed at AddPeer while another one registered its peer.
C8_Witness ==
    \E h, g \in Handlers :
        /\ FinishedCreate(h) /\ req[h].status = 500
        /\ req[h].calls = << <<"AddPeer", KeyOf(req[h].id), FALSE>> >>
        /\ FinishedCreate(g) /\ req[g].status = 201
        /\ StoreHas(peers, req[g].id)

\* ---- C9 ------------------------------------------------------------------------
\* C9: the step in which a handler takes up a delete request for an id that
\* is not in the Store answers 404 and changes neither the Store nor the
\* device nor the record of RemovePeer calls; for an id in the Store it takes
\* exactly that record out, and when RemovePeer then succeeds the answer is
\* 204 and the Store is as that first step left it.
C9_Delete ==
    [][\A h \in Handlers :
         /\ (/\ hpc[h] \in {"idle", "done"}
             /\ req'[h].op = "delete"
             /\ req'[h] # req[h]) =>
                IF req'[h].id \in DOMAIN peers
                THEN /\ hpc'[h] = "removePeer"
                     /\ DOMAIN peers' = DOMAIN peers \ {req'[h].id}
                     /\ \A i \in DOMAIN peers' : peers'[i] = peers[i]
                     /\ device' = device
                ELSE /\ hpc'[h] = "done"
                     /\ req'[h].status = 404
                     /\ req'[h].calls = <<>>
                     /\ peers' = peers
                     /\ device' = device
                     /\ removed' = removed
         /\ (/\ hpc[h] = "removePeer"
             /\ hpc'[h] = "done"
             /\ KeyOf(req[h].peer.ID) \notin device') =>
                /\ req'[h].status = 204
                /\ peers' = peers
                /\ device' = device \ {KeyOf(req[h].peer.ID)}]_vars

\* One handler deleted a peer and got 204 while another peer stayed
\* registered; the other handler asked for an id already gone and got 404.
C9_Witness ==
    \E h, g \in Handlers :
        /\ FinishedDelete(h) /\ req[h].status = 204
        /\ FinishedDelete(g) /\ req[g].status = 404
        /\ DOMAIN peers # {}
        /\ ~StoreHas(peers, req[h].id)

\* ---- C10 -----------------------------------------------------------------------
\* RemovePeer was called for the peer's key and the key is still configured.
RemoveFailed(id) ==
    RemoveCalls(KeyOf(id)) # <<>> /\ KeyOf(id) \in device

\* C10: after a delete whose RemovePeer call failed the peer is not in the
\* Store and nobody holds its record, so that one call stays the only one;
\* the delete that made it is answered 500 and any other delete of the id 404
\* without a device call.
C10_NoRestore ==
    \A id \in 1..MaxPeers :
        RemoveFailed(id) =>
            /\ ~StoreHas(peers, id)
            /\ HandlerHolders(id) = {}
            /\ Len(RemoveCalls(KeyOf(id))) = 1
            /\ \A h \in Handlers :
                   (FinishedDelete(h) /\ req[h].id = id) =>
                       IF RemoveCalls(KeyOf(id)) = <<h>> /\ req[h].calls # <<>>
                       THEN req[h].status = 500
                       ELSE req[h].status = 404 /\ req[h].calls = <<>>

\* A delete failed at RemovePeer with 500 and the retry got 404.
C10_Witness ==
    \E h, g \in Handlers :
        /\ FinishedDelete(h) /\ req[h].status = 500
        /\ FinishedDelete(g) /\ req[g].status = 404
        /\ req[h].id = req[g].id
        /\ RemoveFailed(req[h].id)
        /\ RemoveCalls(KeyOf(req[h].id)) = <<h>>

\* ---- C11 -----------------------------------------------------------------------
\* The one credential a route accepts: the JWT signed with the secret for
\* POST /peer, the configured user and password for the three others.
Accepted(op) == IF op = "create" THEN JWTCredential ELSE BasicCredential

Created(h) ==
    FinishedCreate(h) /\ req[h].status = 201 /\ StoreHas(peers, req[h].id)

\* The registered record carries the public key and the single /32 network
\* of the caller's address that the request passed to AddPeer.
MatchesAddPeer(h) ==
    LET p == peers[req[h].id]
        a == req[h].args
    IN  /\ req[h].calls = << <<"AddPeer", a.PublicKey, TRUE>> >>
        /\ p.PublicKey = KeyString(a.PublicKey)
        /\ a.AllowedIPs = << [IP |-> req[h].ip, Mask |-> 32] >>
        /\ p.AllowedCIDR = <<req[h].ip, "/", 32>>
        /\ ParseIP(req[h].ip).kind = "v4"

\* C12, as stated: from the 201 until the peer is deleted or evicted its
\* record has the key and network of the AddPeer call and no LastHandshakeAt.
C12_Original ==
    \A h \in Handlers :
        Created(h) =>
            MatchesAddPeer(h) /\ peers[req[h].id].LastHandshakeAt = Nil

\* C12, amended: from the 201 until the peer is deleted or evicted its record
\* has the key and network of the AddPeer call; it is registered without a
\* LastHandshakeAt and has none until a GC pass stores a non-zero reading of
\* the device for it.
C12_Amended ==
    /\ [](\A h \in Handlers : Created(h) => MatchesAddPeer(h))
    /\ [][\A id \in DOMAIN peers' :
             /\ id \notin DOMAIN peers => peers'[id].LastHandshakeAt = Nil
             /\ (/\ id \in DOMAIN peers
                 /\ peers[id].LastHandshakeAt = Nil
                 /\ peers'[id].LastHandshakeAt # Nil) =>
                    /\ gcpc = "loop" /\ id \in todo /\ id \notin todo'
                    /\ peers'[id].LastHandshakeAt = handshakes'[peers[id].PublicKey]
                    /\ peers'[id].LastHandshakeAt # ZeroTime]_vars

\* After the 201 a whole GC pass has looked at the peer, found no handshake
\* and left it registered without one.
C12_Witness ==
    /\ Created("h1") /\ MatchesAddPeer("h1")
    /\ PassDone
    /\ \E p \in peersList : p.ID = req["h1"].id /\ Reading(p) = ZeroTime
    /\ peers[req["h1"].id].LastHandshakeAt = Nil

\* ---- C14 -----------------------------------------------------------------------
\* Handlers whose create request has called AddPeer.
CalledAddPeer == {h \in Handlers : req[h].op = "create" /\ req[h].args # NoArgs}

\* C14: with UsePresharedKey off every AddPeer call has a nil preshared key
\* and every record an empty one; with it on every AddPeer call has a key,
\* the record of the request carries that same key, no two AddPeer calls and
\* no two registered peers have the same one.
C14_PresharedPolicy ==
    /\ \A h \in CalledAddPeer :
          LET a == req[h].args
              rec == IF hpc[h] = "storeAdd" THEN req[h].peer
                     ELSE IF StoreHas(peers, req[h].id) THEN peers[req[h].id]
                     ELSE NoPeer
          IN  IF opts.UsePresharedKey
              THEN /\ a.PresharedKey # NilKey
                   /\ rec # NoPeer => rec.PresharedKey = KeyString(a.PresharedKey)
                   /\ \A g \in CalledAddPeer \ {h} :
                          req[g].args.PresharedKey # a.PresharedKey
              ELSE /\ a.PresharedKey = NilKey
                   /\ rec # NoPeer => rec.PresharedKey = EmptyString
    /\ \A i \in DOMAIN peers :
          IF opts.UsePresharedKey
          THEN /\ ~ParseKey(peers[i].PresharedKey).err
               /\ \A j \in DOMAIN peers \ {i} :
                      peers[j].PresharedKey # peers[i].PresharedKey
          ELSE peers[i].PresharedKey = EmptyString

\* With the option on, two create requests have registered two peers, each
\* with the preshared key its AddPeer call carried.
C14_Witness ==
    /\ opts.UsePresharedKey
    /\ \E h, g \in Handlers :
          /\ h # g /\ Created(h) /\ Created(g)
          /\ peers[req[h].id].PresharedKey = KeyString(req[h].args.PresharedKey)
          /\ peers[req[g].id].PresharedKey = KeyString(req[g].args.PresharedKey)
          /\ req[h].args.PresharedKey # req[g].args.PresharedKey

\* ---- C15 -----------------------------------------------------------------------
\* The validation outcome of a create request that passed the gate: 400 for
\* an unparseable address, 403 for one that is not IPv4, 400 for a malformed
\* body, and 0 for a request that is valid.
ValidationStatus(ip, body) ==
    CASE ip = "" -> 400
      [] ip = "2001:db8::1" -> 403
      [] body = "malformed" -> 400
      [] OTHER -> 0

\* C15: a create request is answered 400 or 403 exactly when its address or
\* body is invalid, in its first step, which calls no device operation and
\* changes neither the Store nor the device nor the ids drawn; a request with
\* an empty body is valid and goes on with an empty note.
C15_Validation ==
    /\ [](\A h \in Handlers :
             req[h].op = "create" /\ req[h].status # 401 =>
                 LET v == ValidationStatus(req[h].ip, req[h].body)
                 IN  IF v # 0
                     THEN /\ hpc[h] = "done"
                          /\ req[h].status = v
                          /\ req[h].calls = <<>>
                          /\ req[h].muts = <<>>
                     ELSE /\ req[h].status \notin {400, 403}
                          /\ req[h].body = "empty" => req[h].note = "")
    /\ [][\A h \in Handlers :
             (req'[h] # req[h] /\ req'[h].status \in {400, 403}) =>
                 /\ peers' = peers
                 /\ device' = device
                 /\ removed' = removed
                 /\ nextID' = nextID]_vars

\* A create with an empty body registered its peer while another create
\* with a malformed body was answered 400.
C15_Witness ==
    \E h, g \in Handlers :
        /\ Created(h) /\ req[h].body = "empty" /\ req[h].note = ""
        /\ FinishedCreate(g) /\ req[g].body = "malformed" /\ req[g].status = 400
        /\ req[g].ip = "10.0.0.1"

\* ---- C18 -----------------------------------------------------------------------
\* The GC, not a delete handler, took the peer out of the Store and called
\* RemovePeer for it.
EvictedByGC(id) ==
    \E i \in DOMAIN RemoveCalls(KeyOf(id)) : RemoveCalls(KeyOf(id))[i] = "gc"

\* C18: a pass whose Handshakes call failed goes on to the snapshot with an
\* empty handshake map; when its loop is over, every never-connected peer of
\* the snapshot past the TTL is out of the Store, no peer's stored
\* LastHandshakeAt differs from the snapshot's, and a peer that had one has
\* been evicted only if StaleHandshakeTTL had run out on it.
C18_HandshakesFailed ==
    hsErr =>
        /\ gcpc # "idle"
        /\ handshakes = EmptyMap
        /\ PassDone =>
              \A p \in peersList :
                  /\ (/\ p.LastHandshakeAt = Nil
                      /\ opts.NeverConnectedTTL > 0
                      /\ gnow - p.CreatedAt > opts.NeverConnectedTTL) =>
                         ~StoreHas(peers, p.ID) /\ Winners(p.ID) = 1
                  /\ StoreHas(peers, p.ID) =>
                         peers[p.ID].LastHandshakeAt = p.LastHandshakeAt
                  /\ (p.LastHandshakeAt # Nil /\ EvictedByGC(p.ID)) =>
                         /\ opts.StaleHandshakeTTL > 0
                         /\ gnow - p.LastHandshakeAt > opts.StaleHandshakeTTL

\* A pass whose Handshakes call failed has gone through a snapshot of two
\* peers: it evicted the never-connected one and kept the one with a stored
\* handshake, although that one too was older than NeverConnectedTTL.
C18_Witness ==
    /\ hsErr /\ PassDone
    /\ \E p, q \in peersList :
          /\ p.LastHandshakeAt = Nil /\ EvictedByGC(p.ID)
          /\ q.LastHandshakeAt # Nil /\ StoreHas(peers, q.ID)
          /\ opts.NeverConnectedTTL > 0
          /\ gnow - q.CreatedAt > opts.NeverConnectedTTL
          /\ peers[q.ID].LastHandshakeAt = q.LastHandshakeAt

\* ---- C19 -----------------------------------------------------------------------
\* C19, as stated: in a pass whose Handshakes call failed the GC evicts only
\* peers with now - CreatedAt > NeverConnectedTTL.
C19_Original ==
    (hsErr /\ PassDone) =>
        \A p \in peersList :
            EvictedByGC(p.ID) => gnow - p.CreatedAt > opts.NeverConnectedTTL

\* C19, amended: in a pass whose Handshakes call failed the GC evicts a peer
\* without a stored LastHandshakeAt only by its creation time (a non-zero
\* NeverConnectedTTL has run out), and a peer with a stored LastHandshakeAt
\* only by that stored time (a non-zero StaleHandshakeTTL has run out).
C19_Amended ==
    (hsErr /\ PassDone) =>
        \A p \in peersList :
            EvictedByGC(p.ID) =>
                IF p.LastHandshakeAt = Nil
                THEN /\ opts.NeverConnectedTTL > 0
                     /\ gnow - p.CreatedAt > opts.NeverConnectedTTL
                ELSE /\ opts.StaleHandshakeTTL > 0
                     /\ gnow - p.LastHandshakeAt > opts.StaleHandshakeTTL

\* A pass whose Handshakes call failed has evicted a peer by its stored
\* handshake time.
C19_Witness ==
    /\ hsErr /\ PassDone
    /\ \E p \in peersList :
          /\ p.LastHandshakeAt # Nil
          /\ EvictedByGC(p.ID)
          /\ gnow - p.LastHandshakeAt > opts.StaleHandshakeTTL

\* ---- C20 -----------------------------------------------------------------------
\* The GC's RemovePeer call for the peer failed: the key is still configured.
GCRemoveFailed(id) == EvictedByGC(id) /\ KeyOf(id) \in device

\* An eviction rule fires for a peer of the snapshot, on the last handshake
\* the pass knows of.
RuleFires(p) ==
    IF LastKnown(p) = Nil
    THEN opts.NeverConnectedTTL > 0 /\ gnow - p.CreatedAt > opts.NeverConnectedTTL
    ELSE opts.StaleHandshakeTTL > 0 /\ gnow - LastKnown(p) > opts.StaleHandshakeTTL

\* C20: when the loop of a pass is over in which the removal of one evicted
\* peer failed, every other peer of the snapshot for which a rule fires is
\* out of the Store and RemovePeer has been called for its key (or is about
\* to be called by the delete handler that took it).
C20_FailureIsolated ==
    PassDone =>
        \A q \in peersList :
            GCRemoveFailed(q.ID) =>
                \A p \in peersList \ {q} :
                    RuleFires(p) =>
                        /\ ~StoreHas(peers, p.ID)
                        /\ Winners(p.ID) = 1

\* One pass evicted two peers: RemovePeer failed for one of them and the
\* other one is gone from the Store and from the device.
C20_Witness ==
    /\ PassDone
    /\ \E p, q \in peersList :
          /\ GCRemoveFailed(q.ID)
          /\ p # q /\ RuleFires(p)
          /\ RemoveCalls(KeyOf(p.ID)) = <<"gc">>
          /\ KeyOf(p.ID) \notin device
          /\ ~StoreHas(peers, p.ID)

\* ---- C13 -----------------------------------------------------------------------
\* What a caller reads in a result it holds.
ViewResult(h, r) ==
    [err |-> r.err,
     peer |-> IF r.peer = NilPeer THEN NoPeer ELSE View(h, r.peer),
     list |-> {View(h, p) : p \in r.list}]

\* No caller is inside a method before or after the step: the step is an
\* assignment of a caller to a Peer it was given.
CallerAssigns == \A c \in Callers : caller[c].pc = "idle" /\ caller'[c].pc = "idle"

\* C13: a step in which a caller assigns to a Peer that Get or Delete
\* returned leaves the Store as its readers see it unchanged, and a step of an
\* Add, a Delete or an UpdateHandshake leaves unchanged what a caller reads
\* in the list that List returned to it.
C13_Copies ==
    [][/\ CallerAssigns => ViewMap(mem', storePeers') = ViewMap(mem, storePeers)
       /\ ~CallerAssigns =>
              \A c \in Callers :
                  (/\ caller[c].pc = "idle" /\ caller[c].op = "List"
                   /\ caller'[c] = caller[c]) =>
                      ViewResult(mem', caller[c].res) = ViewResult(mem, caller[c].res)
      ]_vars

\* ---- C16 -----------------------------------------------------------------------
\* The caller is between the Lock or RLock of a method and its return.
InBody(c) == caller[c].pc \notin {"idle", "AddPeer", "RemovePeer", "Handshakes"}

\* C16: a caller inside Add, Delete or UpdateHandshake holds the mutex alone
\* and no other caller is inside a method; a caller inside Get or List holds
\* it shared and no writer holds it.  Every method returns what the same
\* method returns on the Store held by value when the methods are applied one
\* at a time in the order of their returns, and outside a writer's body the
\* map, read through its pointers, is that Store.
C16_Linearizable ==
    /\ \A c \in Callers :
          InBody(c) =>
              IF caller[c].op \in {"Add", "Delete", "UpdateHandshake"}
              THEN /\ mu.w = {c} /\ mu.r = {}
                   /\ \A d \in Callers \ {c} : ~InBody(d)
              ELSE c \in mu.r /\ mu.w = {}
    /\ \A c \in Callers :
          (~InBody(c) /\ caller[c].op # "none") =>
              ViewResult(mem, caller[c].res) = caller[c].exp
    /\ (\A c \in Callers : InBody(c) => caller[c].op \in {"Get", "List"}) =>
          ViewMap(mem, storePeers) = peers

\* Both callers read at once, one of them half way through a list of two
\* peers of which one has a handshake stored.
C16_Witness ==
    /\ mu.r = Callers
    /\ \E c \in Callers :
          /\ caller[c].op = "List"
          /\ Cardinality(caller[c].seen) = 1
    /\ Cardinality(DOMAIN peers) = 2
    /\ \E id \in DOMAIN peers : peers[id].LastHandshakeAt # Nil

\* ---- C17 -----------------------------------------------------------------------
\* The caller is inside a call of the Manager.
InDeviceCall(c) == caller[c].pc \in {"AddPeer", "RemovePeer", "Handshakes"}

\* C17: a caller inside a Manager call does not hold the Store's mutex; the
\* mutex is held only by callers inside the body of a Store method; so while
\* one caller is in a Manager call and the other one is about to call the
\* Store, the mutex is free.
C17_NoLockAcrossDevice ==
    /\ \A c \in Callers : InDeviceCall(c) => c \notin mu.w \cup mu.r
    /\ \A c \in mu.w \cup mu.r : InBody(c)
    /\ \A c, d \in Callers :
          (InDeviceCall(c) /\ caller[d].pc = "idle") => CanLock(mu)

\* One caller deleted a peer and is inside RemovePeer while the other one
\* holds the mutex inside Add.
C17_Witness ==
    \E c, d \in Callers :
        /\ caller[c].pc = "RemovePeer" /\ caller[c].op = "Delete"
        /\ caller[d].pc = "Add41" /\ mu.w = {d}

\* ---- C21 -----------------------------------------------------------------------
\* C21: the record a pass has taken out of the Store for eviction has either
\* no LastHandshakeAt, and then NeverConnectedTTL is non-zero and the pass's
\* now is more than it past CreatedAt, or it has one, and then
\* StaleHandshakeTTL is non-zero and the pass's now is more than it past
\* LastHandshakeAt, whatever CreatedAt is.
C21_OnlyWhenRuleFires ==
    gcpc = "removePeer" =>
        IF cur.LastHandshakeAt = Nil
        THEN /\ opts.NeverConnectedTTL > 0
             /\ gnow - cur.CreatedAt > opts.NeverConnectedTTL
        ELSE /\ opts.StaleHandshakeTTL > 0
             /\ gnow - cur.LastHandshakeAt > opts.StaleHandshakeTTL

\* A pass is taking out a never-connected peer past its TTL while a peer of
\* the same snapshot whose handshake is exactly StaleHandshakeTTL old, and
\* whose age is beyond NeverConnectedTTL, stays registered.
C21_Witness ==
    /\ gcpc = "removePeer" /\ cur.LastHandshakeAt = Nil
    /\ \E p \in peersList :
          /\ p.ID # cur.ID /\ p.ID \notin todo
          /\ StoreHas(peers, p.ID)
          /\ peers[p.ID].LastHandshakeAt # Nil
          /\ opts.StaleHandshakeTTL > 0
          /\ gnow - peers[p.ID].LastHandshakeAt = opts.StaleHandshakeTTL
          /\ opts.NeverConnectedTTL > 0
          /\ gnow - p.CreatedAt > opts.NeverConnectedTTL

\* ---- C22 -----------------------------------------------------------------------
\* A pass is in progress: runOnce has been called and has not returned.
Sweeping == gcpc \notin {"idle", "returned"}

\* C22: once the context is done, Run eventually returns; the step in which
\* it returns starts at the select, between two passes, with the context
\* done; and once it has returned no pass begins and nothing changes in the
\* Store, on the device or in the ticker's channel.
C22_Stops ==
    /\ ctxDone ~> gcpc = "returned"
    /\ [][(gcpc # "returned" /\ gcpc' = "returned") =>
             (gcpc = "idle" /\ ctxDone /\ todo = {} /\ cur = NoPeer)]_vars
    /\ [][gcpc = "returned" =>
             (/\ gcpc' = "returned"
              /\ UNCHANGED <<handshakes, peersList, todo, gnow, cur, removed,
                             tickerC>>
              /\ DOMAIN peers \subseteq DOMAIN peers')]_vars

\* Run has returned after a pass that began with the context already done
\* and evicted a peer; a tick is left in the channel and a peer in the Store.
C22_Witness ==
    /\ gcpc = "returned" /\ ctxDone
    /\ tickerC = 1
    /\ \E id \in 1..MaxPeers : RemoveCalls(KeyOf(id)) = <<"gc">>
    /\ DOMAIN peers # {}

\* ---- C23 -----------------------------------------------------------------------
\* C23: Run is at its select, in a pass, or has returned, and at the select
\* no pass has locals left; a pass begins only from the select and takes
\* the buffered tick with it; a tick sent during a pass changes nothing but
\* the channel, which never holds more than one tick.
C23_OnePass ==
    /\ [](/\ gcpc \in {"idle", "list", "loop", "delete", "removePeer", "returned"}
          /\ tickerC \in {0, 1}
          /\ gcpc = "idle" =>
                 /\ handshakes = EmptyMap /\ peersList = {} /\ todo = {}
                 /\ cur = NoPeer /\ gnow = ZeroTime)
    /\ [][(~Sweeping /\ Sweeping') =>
             (gcpc = "idle" /\ gcpc' = "list" /\ tickerC' = 0)]_vars
    /\ [][(Sweeping /\ tickerC' # tickerC) =>
             (/\ tickerC' = tickerC + 1
              /\ UNCHANGED <<gcVars, peers, device, removed>>)]_vars

\* A tick is waiting in the channel while the second pass is in its loop.
C23_Witness ==
    /\ gcpc = "loop" /\ todo # {}
    /\ tickerC = 1
    /\ \E id \in 1..MaxPeers : RemoveCalls(KeyOf(id)) = <<"gc">>

\* ---- C24 -----------------------------------------------------------------------
\* The ids of the snapshot the pass took.
SnapshotIDs == {p.ID : p \in peersList}

\* The GC takes a step of the loop of a pass, after the snapshot.
GCLoopStep == gcpc \in {"loop", "delete", "removePeer"} /\ gcVars' # gcVars

\* The RemovePeer calls the GC has made for the key of a peer.
GCRemoveCalls(id) ==
    {i \in DOMAIN RemoveCalls(KeyOf(id)) : RemoveCalls(KeyOf(id))[i] = "gc"}

\* C24: a step of a pass after its snapshot leaves every peer that is not in
\* the snapshot as it is, in the Store and on the device, and neither holds
\* nor removes it; each step of the loop that goes on takes one more peer of
\* the snapshot off the list of those to visit, the peer under eviction is a
\* visited peer of the snapshot, and the GC calls RemovePeer at most once for
\* a peer.
C24_SnapshotOnly ==
    /\ [][GCLoopStep =>
             \A id \in 1..MaxPeers \ SnapshotIDs :
                 /\ id \in DOMAIN peers =>
                        id \in DOMAIN peers' /\ peers'[id] = peers[id]
                 /\ KeyOf(id) \in device <=> KeyOf(id) \in device'
                 /\ RemoveCalls(KeyOf(id))' = RemoveCalls(KeyOf(id))
                 /\ cur'.ID # id]_vars
    /\ [][(GCLoopStep /\ gcpc = "loop" /\ gcpc' # "idle") =>
             \E id \in todo :
                 /\ todo' = todo \ {id}
                 /\ cur' = NoPeer \/ cur'.ID = id]_vars
    /\ [](/\ todo \subseteq SnapshotIDs
          /\ gcpc \in {"delete", "removePeer"} =>
                 cur.ID \in SnapshotIDs \ todo
          /\ \A id \in 1..MaxPeers : Cardinality(GCRemoveCalls(id)) <= 1)

\* A pass has evicted a peer of its snapshot and is over; a peer that was
\* configured on the device before the pass asked for the handshakes and
\* registered after the snapshot is in the Store without a handshake.
C24_Witness ==
    /\ PassDone
    /\ \E id \in SnapshotIDs : RemoveCalls(KeyOf(id)) = <<"gc">>
    /\ \E id \in DOMAIN peers \ SnapshotIDs :
          /\ KeyString(KeyOf(id)) \in DOMAIN handshakes
          /\ peers[id].LastHandshakeAt = Nil

\* ---- C25 -----------------------------------------------------------------------
\* The id was given to a Peer that is neither in the map nor on its way into
\* it: the Peer has been deleted.
Removed(id) ==
    /\ id <= Len(mem.obj)
    /\ id \notin DOMAIN storePeers
    /\ \A c \in Callers : ~(caller[c].pc = "Add41" /\ caller[c].peer = id)

\* C25: the step in which UpdateHandshake(id, t) returns has, for an id in
\* the map, set the LastHandshakeAt that readers see for id to t and left
\* every other field and every other record as it was, and has, for an id not
\* in the map, returned ErrNotFound and left the map as it was; the lookup
\* before it changes nothing; and an id that has been deleted stays out of
\* the map.
C25_UpdateHandshake ==
    /\ [][\A c \in Callers :
             (caller[c].op = "UpdateHandshake" /\ InBody(c)) =>
                 LET id == caller[c].id
                     before == ViewMap(mem, storePeers)
                     after == ViewMap(mem', storePeers')
                 IN  IF InBody(c)'
                     THEN after = before
                     ELSE IF id \in DOMAIN before
                     THEN /\ ~caller'[c].res.err
                          /\ after = [before EXCEPT
                                         ![id].LastHandshakeAt = caller[c].t]
                     ELSE /\ caller'[c].res.err
                          /\ after = before]_vars
    /\ [][\A id \in CallIDs : Removed(id) => Removed(id)']_vars

\* A Delete took a peer out and the UpdateHandshake for it that came after
\* returned ErrNotFound, while the other peer has its handshake stored.
C25_Witness ==
    \E c, d \in Callers :
        /\ caller[c].op = "UpdateHandshake" /\ caller[c].pc = "idle"
        /\ caller[c].res.err
        /\ caller[d].op = "Delete" /\ caller[d].pc = "idle"
        /\ ~caller[d].res.err /\ caller[d].id = caller[c].id
        /\ Removed(caller[c].id)
        /\ \E id \in DOMAIN storePeers :
               ViewMap(mem, storePeers)[id].LastHandshakeAt # Nil

\* ---- C26 -----------------------------------------------------------------------
\* C26: the key of every peer in the Store is configured on the device; so
\* is the key of a create request between its AddPeer and its Store.Add; and
\* a record held for a RemovePeer call, by a handler or by the GC, is out of
\* the Store already.
C26_StoreWithinDevice ==
    /\ \A id \in DOMAIN peers : KeyOf(peers[id].ID) \in device
    /\ \A h \in Handlers :
          /\ hpc[h] = "storeAdd" => KeyOf(req[h].id) \in device
          /\ hpc[h] = "removePeer" => ~StoreHas(peers, req[h].peer.ID)
    /\ gcpc = "removePeer" => ~StoreHas(peers, cur.ID)

\* A delete has failed at RemovePeer, which left its key configured without
\* a record, and the GC is about to take the other peer out of the Store.
C26_Witness ==
    \E id \in DOMAIN peers :
        /\ gcpc = "delete" /\ cur.ID = id
        /\ KeyOf(id) \in device
        /\ \E jd \in 1..MaxPeers \ {id} :
               /\ RemoveFailed(jd)
               /\ FinishedDelete("h1") /\ req["h1"].id = jd
               /\ req["h1"].status = 500

\* ---- C27 -----------------------------------------------------------------------
\* C27: a create request that was answered with a status other than 201 has
\* made no change to the Store, and the peer it may have drawn an id for is
\* neither in the Store nor configured on the device.
C27_FailedCreateNoEffect ==
    \A h \in Handlers :
        (FinishedCreate(h) /\ req[h].status # 201) =>
            /\ req[h].muts = <<>>
            /\ req[h].id # 0 =>
                   /\ ~StoreHas(peers, req[h].id)
                   /\ KeyOf(req[h].id) \notin device

\* ---- C28 -----------------------------------------------------------------------
\* The call of Reload by c returns in this step.
ReloadReturns(c) ==
    rcall'[c].op = "Reload" /\ rcall'[c].pc = "idle" /\ rcall'[c] # rcall[c]

\* C28: a Reload returns an error, and its handler answers 500, exactly when
\* the file could not be read or its text not parsed, and that step leaves
\* Renderer.tpl and the template it points to as they were; a Reload without
\* error answers 204 and has installed the template of the text it read.
\* Renderer.tpl always points to a parsed template and changes only in a
\* step of a Reload that holds the mutex alone; a template, once built, never
\* changes; and a Render executes the template it read from Renderer.tpl
\* under the read lock, which is a parsed one, whatever Reload does meanwhile.
C28_Reload ==
    /\ [](/\ tpl \in DOMAIN tplHeap
          /\ tplHeap[tpl].parsed
          /\ tplHeap[tpl].text.kind # "unparsable"
          /\ \A c \in RCallers :
                 rcall[c].pc = "Render34" =>
                     /\ rcall[c].tpl \in DOMAIN tplHeap
                     /\ tplHeap[rcall[c].tpl].parsed)
    /\ [][\A c \in RCallers :
             ReloadReturns(c) =>
                 IF rcall'[c].res.err
                 THEN /\ rcall'[c].status = 500
                      /\ \/ ~tplFile.readable /\ rcall'[c].content = NoText
                         \/ rcall'[c].content.kind = "unparsable"
                      /\ tpl' = tpl
                      /\ tplHeap' = tplHeap
                 ELSE /\ rcall'[c].status = 204
                      /\ rcall'[c].content.kind # "unparsable"
                      /\ tplHeap'[tpl'].text = rcall'[c].content]_vars
    /\ [][tpl' # tpl =>
             \E c \in RCallers :
                 rcall[c].pc = "Reload61" /\ rmu.w = {c} /\ rmu.r = {}]_vars
    /\ [][\A a \in DOMAIN tplHeap :
             a \in DOMAIN tplHeap' /\ tplHeap'[a] = tplHeap[a]]_vars
    /\ [][\A c \in RCallers :
             /\ (rcall[c].pc = "Render31" /\ rcall'[c].pc = "Render34") =>
                    rcall'[c].tpl = tpl
             /\ (rcall[c].pc = "Render34" /\ rcall'[c].pc = "idle") =>
                    LET text == tplHeap[rcall[c].tpl].text
                    IN  /\ rcall'[c].res.err <=> text.kind = "unexecutable"
                        /\ ~rcall'[c].res.err => rcall'[c].res.out = text]_vars

\* A Reload has failed on an unparsable text with 500 while a Render is about
\* to execute the template it read before an earlier Reload replaced it.
C28_Witness ==
    \E c, d \in RCallers :
        /\ rcall[c].op = "Reload" /\ rcall[c].pc = "idle"
        /\ rcall[c].res.err /\ rcall[c].status = 500
        /\ rcall[c].content.kind = "unparsable"
        /\ rcall[d].pc = "Render34"
        /\ rcall[d].tpl # tpl
        /\ tplHeap[tpl].text # tplHeap[rcall[d].tpl].text

\* ---- C29 -----------------------------------------------------------------------
\* C29: the records of the Store, as Get and List read them, change only in
\* steps of a method that holds the mutex exclusively; a step of the caller
\* of Add after Add has returned changes none of them.
C29_Owns ==
    [][(mu.w = {} /\ mu'.w = {}) =>
           ViewMap(mem', storePeers') = ViewMap(mem, storePeers)]_vars

====
